---- MODULE Spec2Model ----
(***************************************************************************)
(* Model of the helper classes of the SmartLearn Playwright suite that     *)
(* carry state-transition logic:                                           *)
(*   - TestRetryManager.executeWithRetry (src/utils/helpers/testRetry.js)  *)
(*   - SelectorManager                   (src/utils/helpers/               *)
(*                                        selectorManager.js)              *)
(*   - SmartWait                         (src/utils/helpers/smartWait.js)  *)
(*   - DataCleanupManager                (src/unnamed/part_008)            *)
(*   - AutonomousTestScheduler           (src/unnamed/part_007)            *)
(* Each asynchronous function is split at its await points; everything the *)
(* code does between two awaits is one action.                             *)
(***************************************************************************)
EXTENDS Integers, Sequences, FiniteSets, TLC

VARIABLES
    \* ---- TestRetryManager.executeWithRetry: one call ----
    rpc,          \* "idle" | "running" (await testFunc()) | "sleeping" (await timer)
                  \* | "returned" | "thrown"
    config,       \* the destructured options object of the call
    attempt,      \* loop variable `attempt`
    delay,        \* local `delay`
    lastError,    \* local `lastError`
    outcome,      \* what the promise of executeWithRetry settled with
    console,      \* records written with console.log / console.warn by the call
    events,       \* history of the call: testFunc invocations, their results, timers
    \* ---- one SelectorManager instance, the page, and the flows that use them ----
    selectorCache,     \* this.selectorCache: Map cacheKey -> selector
    selectorAttempts,  \* this.selectorAttempts: Map key -> {success, failure}
    present,           \* the selectors that match an attached element of the page
    flow,              \* per flow: the smartSelect call it is in (locals, position)
    waits,             \* history: every settled locator.waitFor and every clearCache
    calls,             \* number of smartSelect / smartSelectAny / getStats calls
    pageChanges,       \* number of changes the page went through so far
    anyFlow,           \* per flow: the smartSelectAny call it is in
    statsKeys,         \* keys of the object the last getStats returned (its values
                       \* are the live counter objects of selectorAttempts)
    \* ---- SmartWait (static methods): one call of each ----
    elementWait,       \* a waitForElement call with its waitForPositionStable
    anyWait,           \* a waitForAnyElement call
    \* ---- one DataCleanupManager instance and one executeWithCleanup call ----
    dataRegistry,      \* this.dataRegistry: Map key -> entry, in insertion order
    cleanupStrategies, \* this.cleanupStrategies: the data types with a strategy
    cleanupHistory,    \* this.cleanupHistory
    cleanupRun,        \* the executeWithCleanup call (locals, position)
    itemRuns,          \* the cleanupDataItem calls made directly by callers
    \* ---- one AutonomousTestScheduler instance and node-cron ----
    jobs,              \* this.jobs: Map jobName -> { job, cronExpression, testType }
    cronJobs,          \* every task cron.schedule created, in order of creation
    lastOp,            \* the last scheduler method that returned or threw
    \* ---- the test that runs the flow ----
    cancelledAt        \* "none", or where the flow was when its test timed out

retryVars == <<rpc, config, attempt, delay, lastError, outcome, console, events>>
selectorVars ==
    <<selectorCache, selectorAttempts, present, flow, waits, calls, pageChanges>>
anyVars == <<anyFlow, statsKeys>>
waitVars == <<elementWait, anyWait>>
cleanupVars == <<dataRegistry, cleanupStrategies, cleanupHistory, cleanupRun>>
schedulerVars == <<jobs, cronJobs, lastOp>>
vars ==
    <<retryVars, selectorVars, anyVars, waitVars, cleanupVars, schedulerVars,
      itemRuns, cancelledAt>>

\* what a step of one component leaves alone
besidesRetry ==
    <<selectorVars, anyVars, waitVars, cleanupVars, schedulerVars, itemRuns,
      cancelledAt>>
besidesResolver ==
    <<retryVars, waitVars, cleanupVars, schedulerVars, itemRuns, cancelledAt>>
besidesSelector == <<anyVars, besidesResolver>>
besidesWait ==
    <<retryVars, selectorVars, anyVars, cleanupVars, schedulerVars, itemRuns,
      cancelledAt>>
besidesCleanup ==
    <<retryVars, selectorVars, anyVars, waitVars, schedulerVars, itemRuns,
      cancelledAt>>
besidesScheduler ==
    <<retryVars, selectorVars, anyVars, waitVars, cleanupVars, itemRuns,
      cancelledAt>>

-----------------------------------------------------------------------------
(* Bounds and input sets of the retry model *)

MaxRetriesBound == 4

RetryCounts == 0..MaxRetriesBound
InitialDelays == {0, 50, 100}
BackoffMultipliers == {1, 2, 3}
TestNames == {"Login"}

\* default value of the retryableErrors option
DefaultRetryableErrors ==
    {"timeout", "Timeout", "Navigation", "ERR_NAME_NOT_RESOLVED", "net::ERR"}

RetryablePatternSets == {DefaultRetryableErrors, {"timeout"}, {}}

\* messages of the errors testFunc may reject with ("" : an error without message)
ErrorMessages ==
    {"timeout waiting for navigation", "Timeout 5000ms exceeded",
     "TIMEOUT", "expect(received).toBe(expected)", ""}

ResultValues == {"v1", "v2"}

Configs ==
    [maxRetries : RetryCounts, initialDelay : InitialDelays,
     backoffMultiplier : BackoffMultipliers, testName : TestNames,
     retryableErrors : RetryablePatternSets]

-----------------------------------------------------------------------------
(* Values *)

\* An error object: `id` is its identity (the number of the testFunc invocation
\* that created it; 0 for an error object created by executeWithRetry itself).
ErrorObject(id, kind, message) == [id |-> id, kind |-> kind, message |-> message]

NoError == ErrorObject(-1, "undefined", "")
NoOutcome == [kind |-> "pending", value |-> "", error |-> NoError]
Returned(v) == [kind |-> "returned", value |-> v, error |-> NoError]
Thrown(e) == [kind |-> "thrown", value |-> "", error |-> e]

NoConfig ==
    [maxRetries |-> 0, initialDelay |-> 0, backoffMultiplier |-> 1,
     testName |-> "", retryableErrors |-> {}]

\* String.prototype.includes: case-sensitive substring test
Includes(s, pattern) ==
    \/ pattern = ""
    \/ \E i \in 1..(Len(s) - Len(pattern) + 1) :
          SubSeq(s, i, i + Len(pattern) - 1) = pattern

\* TestRetryManager.shouldRetry
shouldRetryAlways(error, att, maxRetries, retryableErrors) ==
    att < maxRetries

shouldRetryUnbounded(error, att, maxRetries, retryableErrors) ==
    \E pattern \in retryableErrors : Includes(error.message, pattern)

shouldRetry(error, att, maxRetries, retryableErrors) ==
    IF att >= maxRetries
    THEN FALSE
    ELSE \E pattern \in retryableErrors : Includes(error.message, pattern)

\* history records
HistoryEvent(type, n, ms, v, e) ==
    [type |-> type, attempt |-> n, ms |-> ms, value |-> v, error |-> e]
CallEvent(n) == HistoryEvent("call", n, 0, "", NoError)
ResolveEvent(n, v) == HistoryEvent("resolved", n, 0, v, NoError)
RejectEvent(n, e) == HistoryEvent("rejected", n, 0, "", e)
SleepEvent(n, ms) == HistoryEvent("sleep", n, ms, "", NoError)

\* console records (the fields interpolated into the template strings)
LogRecord(level, what, cfg, att, msg, ms) ==
    [level |-> level, what |-> what, testName |-> cfg.testName, attempt |-> att,
     maxRetries |-> cfg.maxRetries, message |-> msg, ms |-> ms]

\* the error of line 85; with lastError still undefined, evaluating
\* lastError.message raises a TypeError instead
TrailingError(cfg, last) ==
    IF last = NoError
    THEN ErrorObject(0, "TypeError", "Cannot read properties of undefined (reading 'message')")
    ELSE ErrorObject(0, "Error",
            "[" \o cfg.testName \o "] Failed after " \o ToString(cfg.maxRetries)
                \o " attempts. Last error: " \o last.message)

-----------------------------------------------------------------------------
(* executeWithRetry *)

RetryInit ==
    /\ rpc = "idle"
    /\ config = NoConfig
    /\ attempt = 0
    /\ delay = 0
    /\ lastError = NoError
    /\ outcome = NoOutcome
    /\ console = <<>>
    /\ events = <<>>

\* lines 45-50: the call up to the first `await testFunc()`
ExecuteWithRetry ==
    /\ rpc = "idle"
    /\ \E cfg \in Configs :
         /\ config' = cfg
         /\ lastError' = NoError
         /\ delay' = cfg.initialDelay
         /\ attempt' = 1
         /\ console' = <<>>
         /\ IF 1 <= cfg.maxRetries
            THEN /\ rpc' = "running"
                 /\ events' = <<CallEvent(1)>>
                 /\ outcome' = NoOutcome
            ELSE /\ rpc' = "thrown"
                 /\ events' = <<>>
                 /\ outcome' = Thrown(TrailingError(cfg, NoError))

\* lines 50-58: testFunc() resolved
TestFuncResolvesWithTrailingSleep ==
    /\ rpc = "running"
    /\ \E v \in ResultValues :
         /\ events' = events \o <<ResolveEvent(attempt, v), SleepEvent(attempt, delay)>>
         /\ outcome' = Returned(v)
    /\ rpc' = "returned"
    /\ UNCHANGED <<config, attempt, delay, lastError, console>>

TestFuncResolves ==
    /\ rpc = "running"
    /\ \E v \in ResultValues :
         /\ events' = Append(events, ResolveEvent(attempt, v))
         /\ outcome' = Returned(v)
    /\ console' =
         IF attempt > 1
         THEN Append(console, LogRecord("log", "passed", config, attempt, "", 0))
         ELSE console
    /\ rpc' = "returned"
    /\ UNCHANGED <<config, attempt, delay, lastError>>

\* lines 59-82: testFunc() rejected; the catch block up to `await new Promise(...)`
\* or the rethrow
TestFuncRejectsWrapping ==
    /\ rpc = "running"
    /\ \E m \in ErrorMessages :
         LET error == ErrorObject(attempt, "Error", m) IN
         /\ lastError' = error
         /\ IF shouldRetry(error, attempt, config.maxRetries, config.retryableErrors)
            THEN /\ console' = console \o
                       <<LogRecord("warn", "failed", config, attempt, error.message, 0),
                         LogRecord("log", "retrying", config, attempt, "", delay)>>
                 /\ events' = events \o
                       <<RejectEvent(attempt, error), SleepEvent(attempt, delay)>>
                 /\ rpc' = "sleeping"
                 /\ outcome' = outcome
            ELSE /\ console' = console
                 /\ events' = Append(events, RejectEvent(attempt, error))
                 /\ rpc' = "thrown"
                 /\ outcome' = Thrown(TrailingError(config, error))
    /\ UNCHANGED <<config, attempt, delay>>

TestFuncRejectsWithoutSleep ==
    /\ rpc = "running"
    /\ \E m \in ErrorMessages :
         LET error == ErrorObject(attempt, "Error", m) IN
         /\ lastError' = error
         /\ IF shouldRetry(error, attempt, config.maxRetries, config.retryableErrors)
            THEN /\ console' = console \o
                       <<LogRecord("warn", "failed", config, attempt, error.message, 0),
                         LogRecord("log", "retrying", config, attempt, "", delay)>>
                 /\ events' = events \o
                       <<RejectEvent(attempt, error), CallEvent(attempt + 1)>>
                 /\ rpc' = "running"
                 /\ attempt' = attempt + 1
                 /\ outcome' = outcome
            ELSE /\ console' = console
                 /\ events' = Append(events, RejectEvent(attempt, error))
                 /\ rpc' = "thrown"
                 /\ attempt' = attempt
                 /\ outcome' = Thrown(error)
    /\ UNCHANGED <<config, delay>>

TestFuncRejects ==
    /\ rpc = "running"
    /\ \E m \in ErrorMessages :
         LET error == ErrorObject(attempt, "Error", m) IN
         /\ lastError' = error
         /\ IF shouldRetry(error, attempt, config.maxRetries, config.retryableErrors)
            THEN /\ console' = console \o
                       <<LogRecord("warn", "failed", config, attempt, error.message, 0),
                         LogRecord("log", "retrying", config, attempt, "", delay)>>
                 /\ events' = events \o
                       <<RejectEvent(attempt, error), SleepEvent(attempt, delay)>>
                 /\ rpc' = "sleeping"
                 /\ outcome' = outcome
            ELSE /\ console' = console
                 /\ events' = Append(events, RejectEvent(attempt, error))
                 /\ rpc' = "thrown"
                 /\ outcome' = Thrown(error)
    /\ UNCHANGED <<config, attempt, delay>>

\* lines 77-78, 48-50 (and 85-87): the timer fired; delay grows, the loop advances
\* to the next `await testFunc()`
NextDelayAdditive(d, multiplier) == d + d

NextDelay(d, multiplier) == d * multiplier

TimerFiresNoIncrement ==
    /\ rpc = "sleeping"
    /\ delay' = NextDelay(delay, config.backoffMultiplier)
    /\ rpc' = "running"
    /\ events' = Append(events, CallEvent(attempt))
    /\ UNCHANGED <<config, attempt, lastError, console, outcome>>

TimerFires ==
    /\ rpc = "sleeping"
    /\ delay' = NextDelay(delay, config.backoffMultiplier)
    /\ attempt' = attempt + 1
    /\ IF attempt + 1 <= config.maxRetries
       THEN /\ rpc' = "running"
            /\ events' = Append(events, CallEvent(attempt + 1))
            /\ outcome' = outcome
       ELSE /\ rpc' = "thrown"
            /\ events' = events
            /\ outcome' = Thrown(TrailingError(config, lastError))
    /\ UNCHANGED <<config, lastError, console>>


-----------------------------------------------------------------------------
(* SelectorManager: bounds, input sets, values *)

MaxCalls == 2
MaxPageChanges == 2

Flows == {"f1", "f2"}

\* Friendly names and selectors; `${"x"}_${"a_b"}` and `${"x_a"}_${"b"}` are the
\* same key.
ElementNames == {"x", "x_a"}
Selectors == {"a", "b", "a_b"}

\* [primarySelector, ...fallbackSelectors] of the calls
CandidateLists == {<<"a", "b", "a_b">>, <<"b", "a">>, <<"a_b">>, <<"b">>}

\* `${elementName}_${selector}`: the cache key (line 34, with the primary
\* selector) and the statistics key (line 160)
Key(elementName, selector) == elementName \o "_" \o selector

EmptyMap == [k \in {} |-> ""]
Has(map, key) == key \in DOMAIN map
MapSet(map, key, value) ==
    [k \in DOMAIN map \cup {key} |-> IF k = key THEN value ELSE map[k]]

\* page.locator(selector), and the null of line 75
Locator(selector) == [kind |-> "locator", selector |-> selector]
NullResult == [kind |-> "null", selector |-> ""]
NoResult == [kind |-> "pending", selector |-> ""]

\* Array.prototype.join
RECURSIVE Join(_, _)
Join(seq, sep) ==
    IF seq = <<>> THEN ""
    ELSE IF Len(seq) = 1 THEN seq[1]
    ELSE seq[1] \o sep \o Join(Tail(seq), sep)

\* a record written through this.logger
LoggerRecord(level, elementName, text) ==
    [level |-> level, elementName |-> elementName, text |-> text]

\* one settled locator.waitFor of a smartSelect call, as the call saw it
Tried(selector, ok) == [selector |-> selector, ok |-> ok]

\* history records
WaitRecord(call, elementName, primarySelector, selector, ok) ==
    [type |-> "wait", call |-> call, elementName |-> elementName,
     primarySelector |-> primarySelector, selector |-> selector, ok |-> ok]
ClearRecord ==
    [type |-> "clear", call |-> 0, elementName |-> "", primarySelector |-> "",
     selector |-> "", ok |-> FALSE]

IdleFlow ==
    [pc |-> "idle", call |-> 0, elementName |-> "", allSelectors |-> <<>>,
     idx |-> 0, result |-> NoResult, tried |-> <<>>, log |-> <<>>]

\* SelectorManager.recordAttempt
recordAttemptSwapped(attempts, elementName, selector, success) ==
    LET key == Key(elementName, selector)
        stats == IF Has(attempts, key) THEN attempts[key]
                 ELSE [success |-> 0, failure |-> 0]
    IN  MapSet(attempts, key,
               IF success
               THEN [stats EXCEPT !.failure = @ + 1]
               ELSE [stats EXCEPT !.success = @ + 1])

recordAttemptBoth(attempts, elementName, selector, success) ==
    LET key == Key(elementName, selector)
        stats == IF Has(attempts, key) THEN attempts[key]
                 ELSE [success |-> 0, failure |-> 0]
    IN  MapSet(attempts, key,
               [success |-> stats.success + 1, failure |-> stats.failure + 1])

recordAttemptFromScratch(attempts, elementName, selector, success) ==
    LET key == Key(elementName, selector)
    IN  MapSet(attempts, key,
               IF success
               THEN [success |-> 1, failure |-> 0]
               ELSE [success |-> 0, failure |-> 1])

recordAttempt(attempts, elementName, selector, success) ==
    LET key == Key(elementName, selector)
        stats == IF Has(attempts, key) THEN attempts[key]
                 ELSE [success |-> 0, failure |-> 0]
    IN  MapSet(attempts, key,
               IF success
               THEN [stats EXCEPT !.success = @ + 1]
               ELSE [stats EXCEPT !.failure = @ + 1])

-----------------------------------------------------------------------------
(* SelectorManager.smartSelect, clearCache, and the page *)

SelectorAtRest ==
    /\ selectorCache = EmptyMap
    /\ selectorAttempts = EmptyMap
    /\ present = {}
    /\ flow = [f \in {"f1"} |-> IdleFlow]
    /\ waits = <<>>
    /\ calls = 0
    /\ pageChanges = 0

\* a fresh SelectorManager used by the flows `users`, on a page in any state
FreshManager(users) ==
    /\ selectorCache = EmptyMap
    /\ selectorAttempts = EmptyMap
    /\ present \in SUBSET Selectors
    /\ flow = [f \in users |-> IdleFlow]
    /\ waits = <<>>
    /\ calls = 0
    /\ pageChanges = 0

\* one page object driving its SelectorManager from a single flow
SelectorInit == FreshManager({"f1"})

\* several flows sharing one SelectorManager
SharedSelectorInit == FreshManager(Flows)

\* lines 34-48: a flow calls smartSelect; the call runs to the cache-hit return or
\* to the first `await locator.waitFor(...)`
SmartSelectIgnoringCache(f) ==
    /\ flow[f].pc \in {"idle", "returned"}
    /\ anyFlow[f].pc # "waiting"
    /\ calls < MaxCalls
    /\ calls' = calls + 1
    /\ \E elementName \in ElementNames, candidates \in CandidateLists :
         flow' = [flow EXCEPT ![f] =
             [IdleFlow EXCEPT !.call = calls + 1,
                              !.elementName = elementName,
                              !.allSelectors = candidates,
                              !.pc = "waiting", !.idx = 1]]
    /\ UNCHANGED <<selectorCache, selectorAttempts, present, waits, pageChanges>>

SmartSelect(f) ==
    /\ flow[f].pc \in {"idle", "returned"}
    /\ anyFlow[f].pc # "waiting"
    /\ calls < MaxCalls
    /\ calls' = calls + 1
    /\ \E elementName \in ElementNames, candidates \in CandidateLists :
         LET primarySelector == Head(candidates)
             fallbackSelectors == Tail(candidates)
             cacheKey == Key(elementName, primarySelector)
             allSelectors == <<primarySelector>> \o fallbackSelectors
             started == [IdleFlow EXCEPT !.call = calls + 1,
                                         !.elementName = elementName,
                                         !.allSelectors = allSelectors]
         IN  IF Has(selectorCache, cacheKey)
             THEN flow' = [flow EXCEPT ![f] =
                     [started EXCEPT !.pc = "returned",
                                     !.result = Locator(selectorCache[cacheKey])]]
             ELSE flow' = [flow EXCEPT ![f] =
                     [started EXCEPT !.pc = "waiting", !.idx = 1]]
    /\ UNCHANGED <<selectorCache, selectorAttempts, present, waits, pageChanges>>

\* lines 48-60: the awaited waitFor resolved (the element is attached)
WaitForResolvesKeyedByCandidate(f) ==
    LET me == flow[f]
        selector == me.allSelectors[me.idx]
        cacheKey == Key(me.elementName, selector)
    IN  /\ me.pc = "waiting"
        /\ selector \in present
        /\ selectorCache' = MapSet(selectorCache, cacheKey, selector)
        /\ selectorAttempts' =
             recordAttempt(selectorAttempts, me.elementName, selector, TRUE)
        /\ flow' = [flow EXCEPT ![f] =
             [me EXCEPT !.pc = "returned",
                        !.result = Locator(selector),
                        !.tried = Append(@, Tried(selector, TRUE)),
                        !.log = Append(@, LoggerRecord("log", me.elementName, selector))]]
        /\ waits' = Append(waits,
             WaitRecord(me.call, me.elementName, me.allSelectors[1], selector, TRUE))
        /\ UNCHANGED <<present, calls, pageChanges>>

WaitForResolves(f) ==
    LET me == flow[f]
        selector == me.allSelectors[me.idx]
        cacheKey == Key(me.elementName, me.allSelectors[1])
    IN  /\ me.pc = "waiting"
        /\ selector \in present
        /\ selectorCache' = MapSet(selectorCache, cacheKey, selector)
        /\ selectorAttempts' =
             recordAttempt(selectorAttempts, me.elementName, selector, TRUE)
        /\ flow' = [flow EXCEPT ![f] =
             [me EXCEPT !.pc = "returned",
                        !.result = Locator(selector),
                        !.tried = Append(@, Tried(selector, TRUE)),
                        !.log = Append(@, LoggerRecord("log", me.elementName, selector))]]
        /\ waits' = Append(waits,
             WaitRecord(me.call, me.elementName, me.allSelectors[1], selector, TRUE))
        /\ UNCHANGED <<present, calls, pageChanges>>

\* lines 61-75: the awaited waitFor timed out; the catch block, then the next
\* candidate's waitFor or, after the last candidate, the error record and null
WaitForRejectsGivingUp(f) ==
    LET me == flow[f]
        selector == me.allSelectors[me.idx]
    IN  /\ me.pc = "waiting"
        /\ selector \notin present
        /\ selectorAttempts' =
             recordAttempt(selectorAttempts, me.elementName, selector, FALSE)
        /\ flow' = [flow EXCEPT ![f] =
             [me EXCEPT !.pc = "returned",
                        !.result = NullResult,
                        !.tried = Append(@, Tried(selector, FALSE)),
                        !.log = @ \o <<LoggerRecord("debug", me.elementName, selector),
                                       LoggerRecord("error", me.elementName,
                                                    Join(me.allSelectors, " | "))>>]]
        /\ waits' = Append(waits,
             WaitRecord(me.call, me.elementName, me.allSelectors[1], selector, FALSE))
        /\ UNCHANGED <<selectorCache, present, calls, pageChanges>>

WaitForRejects(f) ==
    LET me == flow[f]
        selector == me.allSelectors[me.idx]
        failed == [me EXCEPT !.tried = Append(@, Tried(selector, FALSE)),
                             !.log = Append(@, LoggerRecord("debug", me.elementName, selector))]
    IN  /\ me.pc = "waiting"
        /\ selector \notin present
        /\ selectorAttempts' =
             recordAttempt(selectorAttempts, me.elementName, selector, FALSE)
        /\ flow' = [flow EXCEPT ![f] =
             IF me.idx < Len(me.allSelectors)
             THEN [failed EXCEPT !.idx = me.idx + 1]
             ELSE [failed EXCEPT
                     !.pc = "returned",
                     !.result = NullResult,
                     !.log = Append(@, LoggerRecord("error", me.elementName,
                                                    Join(me.allSelectors, " | ")))]]
        /\ waits' = Append(waits,
             WaitRecord(me.call, me.elementName, me.allSelectors[1], selector, FALSE))
        /\ UNCHANGED <<selectorCache, present, calls, pageChanges>>

\* lines 152-154
ClearCacheAndStats ==
    /\ selectorCache # EmptyMap
    /\ selectorCache' = EmptyMap
    /\ selectorAttempts' = EmptyMap
    /\ waits' = Append(waits, ClearRecord)
    /\ UNCHANGED <<present, flow, calls, pageChanges>>

ClearCache ==
    /\ selectorCache # EmptyMap
    /\ selectorCache' = EmptyMap
    /\ waits' = Append(waits, ClearRecord)
    /\ UNCHANGED <<selectorAttempts, present, flow, calls, pageChanges>>

\* the application under test attaches or removes the element a selector matches
PageChanges ==
    /\ pageChanges < MaxPageChanges
    /\ pageChanges' = pageChanges + 1
    /\ \E selector \in Selectors :
         present' = IF selector \in present
                    THEN present \ {selector}
                    ELSE present \cup {selector}
    /\ UNCHANGED <<selectorCache, selectorAttempts, flow, waits, calls>>


-----------------------------------------------------------------------------
(* SelectorManager.smartSelectAny and getStats *)

\* the `selectors` arguments of smartSelectAny calls (default: [])
AnyLists == CandidateLists \cup {<<>>}

IdleAny ==
    [pc |-> "idle", elementName |-> "", selectors |-> <<>>, idx |-> 0,
     result |-> NoResult, tried |-> <<>>, log |-> <<>>]

AnyInit ==
    /\ anyFlow = [f \in DOMAIN flow |-> IdleAny]
    /\ statsKeys = {}

\* lines 86-95 (and 107-111 for an empty list): a flow calls smartSelectAny; the
\* call runs to the first `await locator.waitFor(...)`
SmartSelectAny(f) ==
    /\ anyFlow[f].pc \in {"idle", "returned"}
    /\ flow[f].pc # "waiting"
    /\ calls < MaxCalls
    /\ calls' = calls + 1
    /\ \E elementName \in ElementNames, selectors \in AnyLists :
         LET started == [IdleAny EXCEPT !.elementName = elementName,
                                        !.selectors = selectors]
         IN  anyFlow' = [anyFlow EXCEPT ![f] =
                 IF selectors = <<>>
                 THEN [started EXCEPT
                         !.pc = "returned",
                         !.result = NullResult,
                         !.log = <<LoggerRecord("error", elementName,
                                                Join(selectors, " | "))>>]
                 ELSE [started EXCEPT !.pc = "waiting", !.idx = 1]]
    /\ UNCHANGED <<selectorCache, selectorAttempts, present, flow, waits,
                   pageChanges, statsKeys>>

AnyWaitForResolvesCaching(f) ==
    LET me == anyFlow[f]
        selector == me.selectors[me.idx]
    IN  /\ me.pc = "waiting"
        /\ selector \in present
        /\ anyFlow' = [anyFlow EXCEPT ![f] =
             [me EXCEPT !.pc = "returned",
                        !.result = Locator(selector),
                        !.tried = Append(@, Tried(selector, TRUE)),
                        !.log = Append(@, LoggerRecord("log", me.elementName, selector))]]
        /\ selectorCache' = MapSet(selectorCache, Key(me.elementName, me.selectors[1]), selector)
        /\ UNCHANGED <<selectorAttempts, present, flow, waits, calls, pageChanges,
                       statsKeys>>

\* lines 95-101: the awaited waitFor resolved
AnyWaitForResolves(f) ==
    LET me == anyFlow[f]
        selector == me.selectors[me.idx]
    IN  /\ me.pc = "waiting"
        /\ selector \in present
        /\ anyFlow' = [anyFlow EXCEPT ![f] =
             [me EXCEPT !.pc = "returned",
                        !.result = Locator(selector),
                        !.tried = Append(@, Tried(selector, TRUE)),
                        !.log = Append(@, LoggerRecord("log", me.elementName, selector))]]
        /\ UNCHANGED <<selectorVars, statsKeys>>

\* lines 102-111: the awaited waitFor timed out; `continue` to the next selector's
\* waitFor or, after the last one, the error record and null
AnyWaitForRejectsGivingUp(f) ==
    LET me == anyFlow[f]
        selector == me.selectors[me.idx]
    IN  /\ me.pc = "waiting"
        /\ selector \notin present
        /\ anyFlow' = [anyFlow EXCEPT ![f] =
             [me EXCEPT !.pc = "returned",
                        !.result = NullResult,
                        !.tried = Append(@, Tried(selector, FALSE)),
                        !.log = Append(@, LoggerRecord("error", me.elementName,
                                                       Join(me.selectors, " | ")))]]
        /\ UNCHANGED <<selectorVars, statsKeys>>

AnyWaitForRejects(f) ==
    LET me == anyFlow[f]
        selector == me.selectors[me.idx]
        failed == [me EXCEPT !.tried = Append(@, Tried(selector, FALSE))]
    IN  /\ me.pc = "waiting"
        /\ selector \notin present
        /\ anyFlow' = [anyFlow EXCEPT ![f] =
             IF me.idx < Len(me.selectors)
             THEN [failed EXCEPT !.idx = me.idx + 1]
             ELSE [failed EXCEPT
                     !.pc = "returned",
                     !.result = NullResult,
                     !.log = Append(@, LoggerRecord("error", me.elementName,
                                                    Join(me.selectors, " | ")))]]
        /\ UNCHANGED <<selectorVars, statsKeys>>

\* lines 177-179: Object.fromEntries(this.selectorAttempts) copies the keys and
\* shares the counter objects
GetStats ==
    /\ calls < MaxCalls
    /\ calls' = calls + 1
    /\ statsKeys' = DOMAIN selectorAttempts
    /\ UNCHANGED <<selectorCache, selectorAttempts, present, flow, waits,
                   pageChanges, anyFlow>>

\* the object the last getStats returned, as its holder reads it now
StatsView == [k \in statsKeys |-> selectorAttempts[k]]

-----------------------------------------------------------------------------
(* SmartWait.waitForElement with waitForPositionStable, and waitForAnyElement *)

\* Time is counted in units of checkInterval (100 ms by default).
MaxTimeout == 5
Timeouts == 0..MaxTimeout

requiredStableChecks == 3

\* what locator.boundingBox() resolves with: a rectangle, or null for an element
\* that is not visible
Box(x, y, width, height) ==
    [null |-> FALSE, x |-> x, y |-> y, width |-> width, height |-> height]
NullBox == [null |-> TRUE, x |-> 0, y |-> 0, width |-> 0, height |-> 0]
Boxes == {Box(0, 0, 10, 10), Box(0, 5, 10, 10), NullBox}

\* SmartWait.boxesEqual
boxesEqual(box1, box2) ==
    IF box1.null \/ box2.null
    THEN FALSE
    ELSE /\ box1.x = box2.x
         /\ box1.y = box2.y
         /\ box1.width = box2.width
         /\ box1.height = box2.height

ConsoleRecord(level, text) == [level |-> level, text |-> text]

Min(a, b) == IF a < b THEN a ELSE b
Max(a, b) == IF a > b THEN a ELSE b

IdleElementWait ==
    [pc |-> "idle", timeout |-> 0, visible |-> TRUE, stable |-> TRUE,
     previousBox |-> NullBox, stableCount |-> 0, elapsed |-> 0, boxes |-> <<>>,
     outcome |-> NoOutcome, console |-> <<>>]

\* lines 50-51: waitForElement reports the element ready and returns the locator
ReportReady(me) ==
    [me EXCEPT !.pc = "returned",
               !.outcome = Returned("locator"),
               !.console = Append(@, ConsoleRecord("log", "Element ready"))]

\* lines 52-55: the catch block of waitForElement
ReportTimeout(me, error) ==
    [me EXCEPT !.pc = "thrown",
               !.outcome = Thrown(error),
               !.console = Append(@, ConsoleRecord("error", "Timeout waiting for element"))]

\* lines 150 and 174: the loop condition of waitForPositionStable; when the time
\* is up the method warns and returns to waitForElement
LoopHead(me) ==
    IF me.elapsed < me.timeout
    THEN [me EXCEPT !.pc = "boundingBox"]
    ELSE ReportReady(
            [me EXCEPT !.console =
                Append(@, ConsoleRecord("warn", "Position stability timeout"))])

\* lines 24-41: the call up to `await locator.waitFor(...)`
WaitForElement ==
    /\ elementWait.pc = "idle"
    /\ \E timeout \in Timeouts, visible \in BOOLEAN, stable \in BOOLEAN :
         elementWait' = [IdleElementWait EXCEPT !.pc = "waitFor",
                                               !.timeout = timeout,
                                               !.visible = visible,
                                               !.stable = stable]
    /\ UNCHANGED anyWait

\* lines 41-51 and 145-152: the element reached the state; with `stable` the
\* stability loop is entered
LocatorWaitForResolves ==
    /\ elementWait.pc = "waitFor"
    /\ elementWait' =
         IF elementWait.stable
         THEN LoopHead([elementWait EXCEPT !.previousBox = NullBox,
                                           !.stableCount = 0,
                                           !.elapsed = 0])
         ELSE ReportReady(elementWait)
    /\ UNCHANGED anyWait

\* lines 52-55
LocatorWaitForRejects ==
    /\ elementWait.pc = "waitFor"
    /\ elementWait' =
         ReportTimeout(elementWait, ErrorObject(0, "TimeoutError", "Timeout exceeded"))
    /\ UNCHANGED anyWait

\* lines 152-167: boundingBox() resolved; the comparison with the previous box.
\* `elapsed` is capped at the timeout, beyond which its value makes no difference.
BoundingBoxResolves ==
    LET me == elementWait IN
    /\ me.pc = "boundingBox"
    /\ \E box \in Boxes, took \in 0..1 :
         LET isStable == ~me.previousBox.null /\ boxesEqual(me.previousBox, box)
             count == IF isStable THEN me.stableCount + 1 ELSE 0
             seen == [me EXCEPT !.boxes = Append(@, box),
                                !.stableCount = count,
                                !.elapsed = Min(@ + took, me.timeout)]
         IN  elementWait' =
                IF isStable /\ count >= requiredStableChecks
                THEN ReportReady(seen)
                ELSE [seen EXCEPT !.previousBox = box, !.pc = "checkInterval"]
    /\ UNCHANGED anyWait

\* lines 168-171 and 52-55: boundingBox() rejected (the element disappeared)
BoundingBoxRejects ==
    /\ elementWait.pc = "boundingBox"
    /\ elementWait' =
         ReportTimeout(elementWait,
                       ErrorObject(Len(elementWait.boxes) + 1, "Error",
                                   "Element is not attached to the DOM"))
    /\ UNCHANGED anyWait

\* lines 165-167 and 150: the checkInterval timer fired (on time or late)
CheckIntervalElapses ==
    /\ elementWait.pc = "checkInterval"
    /\ \E took \in 1..2 :
         elementWait' =
            LoopHead([elementWait EXCEPT !.elapsed = Min(@ + took, elementWait.timeout)])
    /\ UNCHANGED anyWait

\* the `selectors` arguments of waitForAnyElement calls (default: [])
WaitLists == {<<>>, <<"a">>, <<"a", "b">>, <<"b", "a", "a_b">>}

\* one settled locator.waitFor of a waitForAnyElement call
Waited(selector, remainingTimeout, ok) ==
    [selector |-> selector, remainingTimeout |-> remainingTimeout, ok |-> ok]

IdleAnyWait ==
    [pc |-> "idle", selectors |-> <<>>, timeout |-> 0, visible |-> TRUE,
     idx |-> 0, elapsed |-> 0, remainingTimeout |-> 0, lastError |-> NoError,
     tried |-> <<>>, outcome |-> NoOutcome, console |-> <<>>]

WaitInit ==
    /\ elementWait = IdleElementWait
    /\ anyWait = IdleAnyWait

\* line 80: Math.max(timeout - elapsed, 100), in units of 100 ms
RemainingTimeout(timeout, elapsed) == Max(timeout - elapsed, 1)

\* lines 65-87 (and 97-100 for an empty list): the call up to the first
\* `await locator.waitFor(...)`
WaitForAnyElement ==
    /\ anyWait.pc = "idle"
    /\ \E selectors \in WaitLists, timeout \in Timeouts, visible \in BOOLEAN :
         LET started == [IdleAnyWait EXCEPT !.selectors = selectors,
                                            !.timeout = timeout,
                                            !.visible = visible]
         IN  anyWait' =
                IF selectors = <<>>
                THEN [started EXCEPT
                        !.pc = "thrown",
                        !.outcome = Thrown(NoError),
                        !.console = <<ConsoleRecord("error", Join(selectors, " | "))>>]
                ELSE [started EXCEPT
                        !.pc = "waiting",
                        !.idx = 1,
                        !.remainingTimeout = RemainingTimeout(timeout, 0)]
    /\ UNCHANGED elementWait

\* lines 84-90: the awaited waitFor resolved
AnyElementWaitResolves ==
    LET me == anyWait
        selector == me.selectors[me.idx]
    IN  /\ me.pc = "waiting"
        /\ anyWait' =
             [me EXCEPT !.pc = "returned",
                        !.outcome = Returned(Locator(selector)),
                        !.tried = Append(@, Waited(selector, me.remainingTimeout, TRUE)),
                        !.console = Append(@, ConsoleRecord("log", selector))]
        /\ UNCHANGED elementWait

\* lines 91-100 and 77-87: the awaited waitFor rejected, at once or when its
\* timeout was over; the next selector's waitFor or, after the last selector, the
\* error record and `throw lastError`
AnyElementWaitRejectsKeepingFirstError ==
    LET me == anyWait
        selector == me.selectors[me.idx]
    IN  /\ me.pc = "waiting"
        /\ \E took \in {0, me.remainingTimeout} :
             LET error == ErrorObject(me.idx, "TimeoutError", "Timeout exceeded")
                 kept == IF me.lastError = NoError THEN error ELSE me.lastError
                 failed == [me EXCEPT
                              !.lastError = kept,
                              !.elapsed = Min(@ + took, me.timeout),
                              !.tried = Append(@, Waited(selector, me.remainingTimeout, FALSE))]
             IN  anyWait' =
                    IF me.idx < Len(me.selectors)
                    THEN [failed EXCEPT
                            !.idx = me.idx + 1,
                            !.remainingTimeout =
                                RemainingTimeout(me.timeout, failed.elapsed)]
                    ELSE [failed EXCEPT
                            !.pc = "thrown",
                            !.outcome = Thrown(kept),
                            !.console = Append(@, ConsoleRecord("error",
                                                   Join(me.selectors, " | ")))]
        /\ UNCHANGED elementWait

AnyElementWaitRejects ==
    LET me == anyWait
        selector == me.selectors[me.idx]
    IN  /\ me.pc = "waiting"
        /\ \E took \in {0, me.remainingTimeout} :
             LET error == ErrorObject(me.idx, "TimeoutError", "Timeout exceeded")
                 failed == [me EXCEPT
                              !.lastError = error,
                              !.elapsed = Min(@ + took, me.timeout),
                              !.tried = Append(@, Waited(selector, me.remainingTimeout, FALSE))]
             IN  anyWait' =
                    IF me.idx < Len(me.selectors)
                    THEN [failed EXCEPT
                            !.idx = me.idx + 1,
                            !.remainingTimeout =
                                RemainingTimeout(me.timeout, failed.elapsed)]
                    ELSE [failed EXCEPT
                            !.pc = "thrown",
                            !.outcome = Thrown(error),
                            !.console = Append(@, ConsoleRecord("error",
                                                   Join(me.selectors, " | ")))]
        /\ UNCHANGED elementWait

-----------------------------------------------------------------------------
(* DataCleanupManager: registry, strategies, cleanupAll and executeWithCleanup *)

DataTypes == {"user", "order"}
DataIds == {"1"}

\* an entry of dataRegistry (lines 26-34)
RegistryEntry(dataType, dataId) ==
    [key |-> Key(dataType, dataId), type |-> dataType, id |-> dataId,
     cleanedUp |-> FALSE]

HistoryRecord(key, status, message) ==
    [key |-> key, status |-> status, error |-> message]

IdleCleanupRun ==
    [pc |-> "idle", cleanupFn |-> FALSE, phase |-> "", cursor |-> 0,
     tested |-> NoOutcome, result |-> "", error |-> NoError, cleanups |-> 0,
     outcome |-> NoOutcome, console |-> <<>>]

CleanupInit ==
    /\ dataRegistry = <<>>
    /\ cleanupStrategies = {}
    /\ cleanupHistory = <<>>
    /\ cleanupRun = IdleCleanupRun

\* the manager, as the operators below transform it
Manager == [dataRegistry |-> dataRegistry, cleanupHistory |-> cleanupHistory,
            run |-> cleanupRun]

IndexOf(registry, key) ==
    LET at == {i \in 1..Len(registry) : registry[i].key = key}
    IN  IF at = {} THEN 0 ELSE CHOOSE i \in at : TRUE

\* lines 25-37: Map.set replaces the value of an existing key in place
RegisterDataForCleanup ==
    /\ cleanupRun.pc \in {"idle", "testFn"}
    /\ \E dataType \in DataTypes, dataId \in DataIds :
         LET entry == RegistryEntry(dataType, dataId)
             i == IndexOf(dataRegistry, entry.key)
         IN  dataRegistry' = IF i = 0 THEN Append(dataRegistry, entry)
                             ELSE [dataRegistry EXCEPT ![i] = entry]
    /\ UNCHANGED <<cleanupStrategies, cleanupHistory, cleanupRun>>

\* lines 44-51, called with a function
RegisterCleanupStrategy ==
    /\ cleanupRun.pc = "idle"
    /\ \E dataType \in DataTypes : cleanupStrategies' = cleanupStrategies \cup {dataType}
    /\ UNCHANGED <<dataRegistry, cleanupHistory, cleanupRun>>

\* lines 127-149 with 59-81: cleanupAll from entry i on, up to the next
\* `await strategy(...)` (cursor) or the end of the registry (cursor 0); entries
\* already cleaned are skipped, entries without strategy are marked cleaned
RECURSIVE CleanupAllFrom(_, _, _)
CleanupAllFrom(registry, strategies, i) ==
    IF i > Len(registry)
    THEN [dataRegistry |-> registry, cursor |-> 0]
    ELSE IF registry[i].cleanedUp
    THEN CleanupAllFrom(registry, strategies, i + 1)
    ELSE IF registry[i].type \notin strategies
    THEN CleanupAllFrom([registry EXCEPT ![i].cleanedUp = TRUE], strategies, i + 1)
    ELSE [dataRegistry |-> registry, cursor |-> i]

\* lines 349-350 and 365: the cleanup of the try block is done: return result;
\* the cleanup of the catch block is done: throw error
CleanupDone(m) ==
    IF m.run.phase = "try"
    THEN [m EXCEPT !.run.pc = "returned",
                   !.run.outcome = Returned(m.run.result),
                   !.run.console = Append(@, ConsoleRecord("log", "completed"))]
    ELSE [m EXCEPT !.run.pc = "thrown",
                   !.run.outcome = Thrown(m.run.error)]

ContinueCleanupAll(m, strategies, i) ==
    LET r == CleanupAllFrom(m.dataRegistry, strategies, i)
        n == [m EXCEPT !.dataRegistry = r.dataRegistry]
    IN  IF r.cursor = 0
        THEN CleanupDone(n)
        ELSE [n EXCEPT !.run.pc = "strategy", !.run.cursor = r.cursor]

\* lines 343-347 and 356-360: cleanupFn if given, otherwise cleanupAll
StartCleanup(m, strategies, phase) ==
    LET n == [m EXCEPT !.run.phase = phase, !.run.cleanups = @ + 1]
    IN  IF m.run.cleanupFn
        THEN [n EXCEPT !.run.pc = "cleanupFn"]
        ELSE ContinueCleanupAll(n, strategies, 1)

\* lines 351-365: the cleanup threw. In the try block the throw lands in the
\* catch block of executeWithCleanup; in the catch block it is logged and dropped
CleanupThrew(m, strategies, cleanupError) ==
    IF m.run.phase = "try"
    THEN StartCleanup(
            [m EXCEPT !.run.error = cleanupError,
                      !.run.console = Append(@, ConsoleRecord("error",
                                          "Test failed: " \o cleanupError.message))],
            strategies, "catch")
    ELSE [m EXCEPT !.run.pc = "thrown",
                   !.run.outcome = Thrown(m.run.error),
                   !.run.console = Append(@, ConsoleRecord("error",
                                       "Cleanup also failed: " \o cleanupError.message))]

Becomes(m) ==
    /\ dataRegistry' = m.dataRegistry
    /\ cleanupHistory' = m.cleanupHistory
    /\ cleanupRun' = m.run
    /\ UNCHANGED cleanupStrategies

\* lines 336-339: the call up to `await testFn()`
ExecuteWithCleanup ==
    /\ cleanupRun.pc = "idle"
    /\ \E given \in BOOLEAN :
         cleanupRun' = [IdleCleanupRun EXCEPT !.pc = "testFn", !.cleanupFn = given]
    /\ UNCHANGED <<dataRegistry, cleanupStrategies, cleanupHistory>>

\* lines 339-347: testFn resolved
CleanupTestFnResolves ==
    /\ cleanupRun.pc = "testFn"
    /\ \E v \in ResultValues :
         Becomes(StartCleanup([Manager EXCEPT !.run.result = v,
                                              !.run.tested = Returned(v)],
                              cleanupStrategies, "try"))

\* lines 351-360: testFn rejected
CleanupTestFnRejects ==
    /\ cleanupRun.pc = "testFn"
    /\ LET error == ErrorObject(1, "Error", "expect(received).toBe(expected)")
       IN  Becomes(StartCleanup(
               [Manager EXCEPT !.run.error = error,
                               !.run.tested = Thrown(error),
                               !.run.console = Append(@, ConsoleRecord("error",
                                                   "Test failed: " \o error.message))],
               cleanupStrategies, "catch"))

\* the awaited cleanupFn() resolved / rejected
CleanupFnResolves ==
    /\ cleanupRun.pc = "cleanupFn"
    /\ Becomes(CleanupDone(Manager))

CleanupFnRejects ==
    /\ cleanupRun.pc = "cleanupFn"
    /\ Becomes(CleanupThrew(Manager, cleanupStrategies,
                            ErrorObject(1 + cleanupRun.cleanups, "Error", "cleanup failed")))

\* lines 86-97 and 139-149: the awaited strategy resolved
StrategyResolves ==
    LET i == cleanupRun.cursor IN
    /\ cleanupRun.pc = "strategy"
    /\ Becomes(ContinueCleanupAll(
           [Manager EXCEPT
               !.dataRegistry[i].cleanedUp = TRUE,
               !.cleanupHistory = Append(@, HistoryRecord(dataRegistry[i].key, "SUCCESS", ""))],
           cleanupStrategies, i + 1))

\* lines 98-109 and 139-149: the awaited strategy rejected with an Error
StrategyRejects ==
    LET i == cleanupRun.cursor IN
    /\ cleanupRun.pc = "strategy"
    /\ Becomes(ContinueCleanupAll(
           [Manager EXCEPT
               !.cleanupHistory =
                   Append(@, HistoryRecord(dataRegistry[i].key, "FAILED", "delete failed"))],
           cleanupStrategies, i + 1))

\* line 99: the awaited strategy rejected with null or undefined; reading
\* error.message in the catch block of cleanupDataItem raises a TypeError that
\* leaves cleanupDataItem and cleanupAll
StrategyRejectsWithNull ==
    /\ cleanupRun.pc = "strategy"
    /\ Becomes(CleanupThrew(Manager, cleanupStrategies,
           ErrorObject(1 + cleanupRun.cleanups, "TypeError",
                       "Cannot read properties of null (reading 'message')")))

-----------------------------------------------------------------------------
(* DataCleanupManager.cleanupDataItem called directly. cleanupByType and        *)
(* cascadingCleanup are loops of such calls, one awaited after the other; the   *)
(* callers may have several calls in flight at once.                            *)

MaxItemCalls == 3
MaxRegistrations == 2

ItemCallers == {"c1", "c2"}
ItemKeys == {Key(dataType, dataId) : dataType \in DataTypes, dataId \in DataIds}

\* a cleanupDataItem call; `entry` identifies the object `registry` of line 61 by
\* the number of the registerDataForCleanup call that created it
IdleItemCall ==
    [pc |-> "idle", type |-> "", id |-> "", key |-> "", entry |-> 0, result |-> FALSE]

\* `registrations` counts the registerDataForCleanup calls per key; `settled` is the
\* history of the strategy promises that settled, with the registration period
\* they settled in
IdleItemRuns ==
    [call |-> [c \in ItemCallers |-> IdleItemCall], started |-> 0,
     registrations |-> [key \in ItemKeys |-> 0], settled |-> <<>>]

StrategySettled(call, ok) ==
    [key |-> call.key, period |-> itemRuns.registrations[call.key], ok |-> ok]

ItemInit == itemRuns = IdleItemRuns

\* lines 25-37, counted
RegisterItem ==
    /\ \E dataType \in DataTypes, dataId \in DataIds :
         LET entry == RegistryEntry(dataType, dataId)
             i == IndexOf(dataRegistry, entry.key)
         IN  /\ itemRuns.registrations[entry.key] < MaxRegistrations
             /\ dataRegistry' = IF i = 0 THEN Append(dataRegistry, entry)
                                 ELSE [dataRegistry EXCEPT ![i] = entry]
             /\ itemRuns' = [itemRuns EXCEPT !.registrations[entry.key] = @ + 1]
    /\ UNCHANGED <<cleanupStrategies, cleanupHistory, cleanupRun>>

\* lines 59-86: the call up to one of the early returns or to `await strategy(...)`
CleanupDataItem(c) ==
    /\ itemRuns.call[c].pc # "strategy"
    /\ itemRuns.started < MaxItemCalls
    /\ \E dataType \in DataTypes, dataId \in DataIds :
         LET key == Key(dataType, dataId)
             i == IndexOf(dataRegistry, key)
             call == [IdleItemCall EXCEPT !.type = dataType, !.id = dataId, !.key = key]
             Goes(to) == [itemRuns EXCEPT !.started = @ + 1, !.call[c] = to]
             Returns(v) == Goes([call EXCEPT !.pc = "returned", !.result = v])
         IN  IF i = 0
             THEN itemRuns' = Returns(FALSE) /\ UNCHANGED dataRegistry
             ELSE IF dataRegistry[i].cleanedUp
             THEN itemRuns' = Returns(TRUE) /\ UNCHANGED dataRegistry
             ELSE IF dataType \notin cleanupStrategies
             THEN /\ dataRegistry' = [dataRegistry EXCEPT ![i].cleanedUp = TRUE]
                  /\ itemRuns' = Returns(TRUE)
             ELSE /\ itemRuns' = Goes([call EXCEPT
                                         !.pc = "strategy",
                                         !.entry = itemRuns.registrations[key]])
                  /\ UNCHANGED dataRegistry
    /\ UNCHANGED <<cleanupStrategies, cleanupHistory, cleanupRun>>

\* lines 86-97: the awaited strategy resolved; line 88 sets the flag of the object
\* read at line 61, which is the entry of the registry unless the key was
\* registered again in the meantime
ItemStrategyResolves(c) ==
    LET call == itemRuns.call[c]
        i == IndexOf(dataRegistry, call.key)
    IN  /\ call.pc = "strategy"
        /\ dataRegistry' =
             IF i # 0 /\ itemRuns.registrations[call.key] = call.entry
             THEN [dataRegistry EXCEPT ![i].cleanedUp = TRUE]
             ELSE dataRegistry
        /\ cleanupHistory' = Append(cleanupHistory, HistoryRecord(call.key, "SUCCESS", ""))
        /\ itemRuns' = [itemRuns EXCEPT
                          !.call[c] = [call EXCEPT !.pc = "returned", !.result = TRUE],
                          !.settled = Append(@, StrategySettled(call, TRUE))]
        /\ UNCHANGED <<cleanupStrategies, cleanupRun>>

\* lines 98-109: the awaited strategy rejected with an Error
ItemStrategyRejects(c) ==
    LET call == itemRuns.call[c]
    IN  /\ call.pc = "strategy"
        /\ cleanupHistory' =
             Append(cleanupHistory, HistoryRecord(call.key, "FAILED", "delete failed"))
        /\ itemRuns' = [itemRuns EXCEPT
                          !.call[c] = [call EXCEPT !.pc = "returned", !.result = FALSE],
                          !.settled = Append(@, StrategySettled(call, FALSE))]
        /\ UNCHANGED <<dataRegistry, cleanupStrategies, cleanupRun>>

\* line 99: the awaited strategy rejected with null or undefined; error.message
\* raises a TypeError inside the catch block and cleanupDataItem rejects
ItemStrategyRejectsWithNull(c) ==
    LET call == itemRuns.call[c]
    IN  /\ call.pc = "strategy"
        /\ itemRuns' = [itemRuns EXCEPT
                          !.call[c] = [call EXCEPT !.pc = "threw"],
                          !.settled = Append(@, StrategySettled(call, FALSE))]
        /\ UNCHANGED <<dataRegistry, cleanupStrategies, cleanupHistory, cleanupRun>>

-----------------------------------------------------------------------------

(* AutonomousTestScheduler: scheduleTests, stopJob, stopAllJobs *)

MaxCronJobs == 3

JobNames == {"nightly", "smoke"}
CronExpressions == {"0 * * * *", "0 2 * * *", "every hour"}
TestTypes == {"all", "ui"}

\* node-cron validates the expression in cron.schedule and throws on a bad one
ValidCron(cronExpression) == cronExpression # "every hour"

\* a task of node-cron: created running, stopped by job.stop()
CronJob(jobName) == [jobName |-> jobName, running |-> TRUE]

JobData(job, cronExpression, testType) ==
    [job |-> job, cronExpression |-> cronExpression, testType |-> testType]

NoJobs == [n \in {} |-> JobData(0, "", "")]

OpRecord(method, jobName, result) ==
    [method |-> method, jobName |-> jobName, result |-> result]

SchedulerInit ==
    /\ jobs = NoJobs
    /\ cronJobs = <<>>
    /\ lastOp = OpRecord("constructor", "", "")

\* lines 297-323
ScheduleTests ==
    /\ Len(cronJobs) < MaxCronJobs
    /\ \E jobName \in JobNames, cronExpression \in CronExpressions,
          testType \in TestTypes :
         IF ValidCron(cronExpression)
         THEN LET job == Len(cronJobs) + 1
              IN  /\ cronJobs' = Append(cronJobs, CronJob(jobName))
                  /\ jobs' = MapSet(jobs, jobName, JobData(job, cronExpression, testType))
                  /\ lastOp' = OpRecord("scheduleTests", jobName, "job")
         ELSE /\ lastOp' = OpRecord("scheduleTests", jobName, "thrown")
              /\ UNCHANGED <<jobs, cronJobs>>

\* lines 600-613
StopJob ==
    \E jobName \in JobNames :
        IF ~Has(jobs, jobName)
        THEN /\ lastOp' = OpRecord("stopJob", jobName, "false")
             /\ UNCHANGED <<jobs, cronJobs>>
        ELSE /\ cronJobs' = [cronJobs EXCEPT ![jobs[jobName].job].running = FALSE]
             /\ jobs' = [n \in DOMAIN jobs \ {jobName} |-> jobs[n]]
             /\ lastOp' = OpRecord("stopJob", jobName, "true")

\* lines 618-627
StopAllJobs ==
    /\ cronJobs' =
         [i \in 1..Len(cronJobs) |->
            IF \E n \in DOMAIN jobs : jobs[n].job = i
            THEN [cronJobs[i] EXCEPT !.running = FALSE]
            ELSE cronJobs[i]]
    /\ jobs' = NoJobs
    /\ lastOp' = OpRecord("stopAllJobs", "", ToString(Cardinality(DOMAIN jobs)))

\* the components modelled further down, before any call, in a test that has
\* not timed out
HelpersAtRest ==
    WaitInit /\ CleanupInit /\ ItemInit /\ SchedulerInit /\ cancelledAt = "none"

-----------------------------------------------------------------------------
(* Specifications *)

\* executeWithRetry is static and shares no state with a SelectorManager: each
\* component is explored with the other one at rest.
RetryNext ==
    \/ ExecuteWithRetry /\ UNCHANGED besidesRetry
    \/ TestFuncResolves /\ UNCHANGED besidesRetry
    \/ TestFuncRejects /\ UNCHANGED besidesRetry
    \/ TimerFires /\ UNCHANGED besidesRetry

SelectorNext ==
    \/ \E f \in DOMAIN flow : SmartSelect(f) /\ UNCHANGED besidesSelector
    \/ \E f \in DOMAIN flow : WaitForResolves(f) /\ UNCHANGED besidesSelector
    \/ \E f \in DOMAIN flow : WaitForRejects(f) /\ UNCHANGED besidesSelector
    \/ ClearCache /\ UNCHANGED besidesSelector
    \/ PageChanges /\ UNCHANGED besidesSelector

RetryAloneInit == RetryInit /\ SelectorAtRest /\ AnyInit /\ HelpersAtRest
RetrySpec == RetryAloneInit /\ [][RetryNext]_vars

\* Every testFunc() promise settles and every timer fires (Node's event loop).
RetryFairSpec ==
    /\ RetrySpec
    /\ WF_vars((TestFuncResolves \/ TestFuncRejects) /\ UNCHANGED besidesRetry)
    /\ WF_vars(TimerFires /\ UNCHANGED besidesRetry)

SelectorAloneInit == SelectorInit /\ RetryInit /\ AnyInit /\ HelpersAtRest
SelectorSpec == SelectorAloneInit /\ [][SelectorNext]_vars

SharedSelectorAloneInit == SharedSelectorInit /\ RetryInit /\ AnyInit /\ HelpersAtRest
SharedSelectorSpec == SharedSelectorAloneInit /\ [][SelectorNext]_vars

\* several flows inside smartSelect on one instance at the same time: they
\* interleave at the awaited waitFor and nowhere else
SharedLists == {<<"b", "a">>, <<"a_b">>}

ConcurrentNext ==
    \/ \E f \in DOMAIN flow :
          /\ SmartSelect(f) /\ flow'[f].allSelectors \in SharedLists
          /\ UNCHANGED besidesSelector
    \/ \E f \in DOMAIN flow : WaitForResolves(f) /\ UNCHANGED besidesSelector
    \/ \E f \in DOMAIN flow : WaitForRejects(f) /\ UNCHANGED besidesSelector
    \/ ClearCache /\ UNCHANGED besidesSelector
    \/ PageChanges /\ UNCHANGED besidesSelector

ConcurrentSpec == SharedSelectorAloneInit /\ [][ConcurrentNext]_vars

\* a SelectorManager with all of its public operations
ResolverNext ==
    \/ SelectorNext
    \/ \E f \in DOMAIN anyFlow : SmartSelectAny(f) /\ UNCHANGED besidesResolver
    \/ \E f \in DOMAIN anyFlow : AnyWaitForResolves(f) /\ UNCHANGED besidesResolver
    \/ \E f \in DOMAIN anyFlow : AnyWaitForRejects(f) /\ UNCHANGED besidesResolver
    \/ GetStats /\ UNCHANGED besidesResolver

ResolverSpec == SelectorAloneInit /\ [][ResolverNext]_vars

\* SmartWait: its methods are static and share no state with the other helpers
ElementWaitNext ==
    \/ WaitForElement /\ UNCHANGED besidesWait
    \/ LocatorWaitForResolves /\ UNCHANGED besidesWait
    \/ LocatorWaitForRejects /\ UNCHANGED besidesWait
    \/ BoundingBoxResolves /\ UNCHANGED besidesWait
    \/ BoundingBoxRejects /\ UNCHANGED besidesWait
    \/ CheckIntervalElapses /\ UNCHANGED besidesWait

AnyWaitNext ==
    \/ WaitForAnyElement /\ UNCHANGED besidesWait
    \/ AnyElementWaitResolves /\ UNCHANGED besidesWait
    \/ AnyElementWaitRejects /\ UNCHANGED besidesWait

\* every helper freshly constructed and unused
FreshInit == RetryInit /\ SelectorAtRest /\ AnyInit /\ HelpersAtRest

ElementWaitSpec == FreshInit /\ [][ElementWaitNext]_vars
AnyWaitSpec == FreshInit /\ [][AnyWaitNext]_vars

CleanupNext ==
    \/ RegisterDataForCleanup /\ UNCHANGED besidesCleanup
    \/ RegisterCleanupStrategy /\ UNCHANGED besidesCleanup
    \/ ExecuteWithCleanup /\ UNCHANGED besidesCleanup
    \/ CleanupTestFnResolves /\ UNCHANGED besidesCleanup
    \/ CleanupTestFnRejects /\ UNCHANGED besidesCleanup
    \/ CleanupFnResolves /\ UNCHANGED besidesCleanup
    \/ CleanupFnRejects /\ UNCHANGED besidesCleanup
    \/ StrategyResolves /\ UNCHANGED besidesCleanup
    \/ StrategyRejects /\ UNCHANGED besidesCleanup
    \/ StrategyRejectsWithNull /\ UNCHANGED besidesCleanup

CleanupSpec == FreshInit /\ [][CleanupNext]_vars

\* a DataCleanupManager whose callers clean single items
besidesItems ==
    <<retryVars, selectorVars, anyVars, waitVars, schedulerVars, cancelledAt>>

ItemNext ==
    \/ RegisterItem /\ UNCHANGED besidesItems
    \/ RegisterCleanupStrategy /\ UNCHANGED besidesCleanup
    \/ \E c \in ItemCallers : CleanupDataItem(c) /\ UNCHANGED besidesItems
    \/ \E c \in ItemCallers : ItemStrategyResolves(c) /\ UNCHANGED besidesItems
    \/ \E c \in ItemCallers : ItemStrategyRejects(c) /\ UNCHANGED besidesItems
    \/ \E c \in ItemCallers : ItemStrategyRejectsWithNull(c) /\ UNCHANGED besidesItems

ItemCleanupSpec == FreshInit /\ [][ItemNext]_vars

SchedulerNext ==
    \/ ScheduleTests /\ UNCHANGED besidesScheduler
    \/ StopJob /\ UNCHANGED besidesScheduler
    \/ StopAllJobs /\ UNCHANGED besidesScheduler

SchedulerSpec == FreshInit /\ [][SchedulerNext]_vars

\* one flow of a page object: it is resolving locators or it is inside
\* executeWithRetry
FlowNext ==
    \/ calls + pageChanges = 0 /\ ExecuteWithRetry /\ UNCHANGED besidesRetry
    \/ calls + pageChanges = 0 /\ TestFuncResolves /\ UNCHANGED besidesRetry
    \/ calls + pageChanges = 0 /\ TestFuncRejects /\ UNCHANGED besidesRetry
    \/ calls + pageChanges = 0 /\ TimerFires /\ UNCHANGED besidesRetry
    \/ \E f \in DOMAIN flow : rpc = "idle" /\ SmartSelect(f) /\ UNCHANGED besidesSelector
    \/ \E f \in DOMAIN flow : rpc = "idle" /\ WaitForResolves(f) /\ UNCHANGED besidesSelector
    \/ \E f \in DOMAIN flow : rpc = "idle" /\ WaitForRejects(f) /\ UNCHANGED besidesSelector
    \/ rpc = "idle" /\ ClearCache /\ UNCHANGED besidesSelector
    \/ rpc = "idle" /\ PageChanges /\ UNCHANGED besidesSelector

FlowSpec == SelectorAloneInit /\ [][FlowNext]_vars

\* The test that runs the flow times out (playwright.config.js:8) while a call is
\* in progress. executeWithRetry and smartSelect take no signal and keep no handle
\* on their timer or wait: the timeout changes nothing in them.
TestTimesOut ==
    /\ cancelledAt = "none"
    /\ \/ rpc \in {"running", "sleeping"} /\ cancelledAt' = rpc
       \/ (\E f \in DOMAIN flow : flow[f].pc = "waiting") /\ cancelledAt' = "waiting"
    /\ UNCHANGED <<retryVars, selectorVars, anyVars, waitVars, cleanupVars,
                   schedulerVars, itemRuns>>

CancelNext ==
    \/ FlowNext
    \/ TestTimesOut

CancelSpec == SelectorAloneInit /\ [][CancelNext]_vars

Init == RetryInit /\ SelectorInit /\ AnyInit /\ HelpersAtRest
Next == RetryNext \/ SelectorNext
Spec == Init /\ [][Next]_vars

-----------------------------------------------------------------------------
(* Observations on the history of one executeWithRetry call *)

IsCall(e) == e.type = "call"
IsSleep(e) == e.type = "sleep"
IsRejected(e) == e.type = "rejected"

Invocations == Len(SelectSeq(events, IsCall))
SleepEvents == SelectSeq(events, IsSleep)
Sleeps == [i \in 1..Len(SleepEvents) |-> SleepEvents[i].ms]
LastEvent == events[Len(events)]
Settled == rpc \in {"returned", "thrown"}

MatchesSome(message, patterns) == \E p \in patterns : Includes(message, p)

RECURSIVE Pow(_, _)
Pow(b, e) == IF e = 0 THEN 1 ELSE b * Pow(b, e - 1)

\* every rejection seen so far carried a message matching a retryable pattern
AllRejectionsRetryable ==
    \A i \in 1..Len(events) :
        IsRejected(events[i]) =>
            MatchesSome(events[i].error.message, config.retryableErrors)

\* the call failed after testFunc rejected with a retryable error every time
ExhaustedOnRetryable ==
    /\ rpc = "thrown"
    /\ config.maxRetries >= 1
    /\ AllRejectionsRetryable

\* the call was aborted by a non-retryable error before the last attempt
AbortedOnNonRetryable ==
    /\ rpc = "thrown"
    /\ events # <<>>
    /\ IsRejected(LastEvent)
    /\ LastEvent.attempt < config.maxRetries
    /\ ~MatchesSome(LastEvent.error.message, config.retryableErrors)

-----------------------------------------------------------------------------
(* Claims on executeWithRetry *)

\* C1: when testFunc succeeds on attempt k, the call returns that attempt's value
\* at once: testFunc has been invoked exactly k times, the resolution is the last
\* thing that happened (no timer was started after it, nothing can follow), and
\* only the k-1 failed attempts before it were followed by a sleep; for k = 1 there
\* is one invocation and no sleep at all.
C1_ReturnsOnSuccess ==
    rpc = "returned" =>
        /\ LastEvent.type = "resolved"
        /\ outcome = Returned(LastEvent.value)
        /\ Invocations = LastEvent.attempt
        /\ Len(Sleeps) = LastEvent.attempt - 1
        /\ (LastEvent.attempt = 1 => events = <<CallEvent(1), LastEvent>>)
        /\ ~ENABLED RetryNext

C1_Witness ==
    /\ rpc = "returned"
    /\ LastEvent.attempt = 3
    /\ Invocations = 3

\* C2: a rejection on attempt a < maxRetries whose message contains none of the
\* retryableErrors patterns ends the call: it is the last event (no sleep, no
\* further invocation), the call has failed, and testFunc ran exactly a times.
C2_NonRetryableAborts ==
    \A i \in 1..Len(events) :
        ( /\ IsRejected(events[i])
          /\ events[i].attempt < config.maxRetries
          /\ ~MatchesSome(events[i].error.message, config.retryableErrors) )
        => /\ i = Len(events)
           /\ rpc = "thrown"
           /\ Invocations = events[i].attempt
           /\ (events[i].attempt = 1 => events = <<CallEvent(1), events[i]>>)

C2_Witness ==
    /\ AbortedOnNonRetryable
    /\ config.maxRetries = MaxRetriesBound
    /\ config.retryableErrors = {"timeout"}
    /\ LastEvent.error.message = "TIMEOUT"
    /\ Invocations = 1

\* C3 (as claimed): after a retryable failure on every attempt the call fails with
\* a distinct exhausted error, not the bare error of the last attempt, that
\* carries the number of attempts and the last error.
C3_ExhaustedErrorIsDistinct ==
    ExhaustedOnRetryable =>
        /\ outcome.error # lastError
        /\ Includes(outcome.error.message, ToString(config.maxRetries))
        /\ Includes(outcome.error.message, lastError.message)

\* C4: a call whose testFunc failed with a retryable error every time invoked it
\* exactly maxRetries times and slept exactly maxRetries - 1 times, the sleep after
\* failed attempt a being initialDelay * backoffMultiplier^(a-1); no sleep follows
\* the last attempt.
C4_GeometricBackoff ==
    ExhaustedOnRetryable =>
        /\ Invocations = config.maxRetries
        /\ Len(Sleeps) = config.maxRetries - 1
        /\ \A a \in 1..Len(Sleeps) :
              /\ SleepEvents[a].attempt = a
              /\ Sleeps[a] = config.initialDelay * Pow(config.backoffMultiplier, a - 1)
        /\ IsRejected(LastEvent)
        /\ LastEvent.attempt = config.maxRetries

C4_Witness ==
    /\ ExhaustedOnRetryable
    /\ config.maxRetries = 4
    /\ Sleeps = <<100, 200, 400>>

\* C5: when the call is aborted by a non-retryable error, what the caller receives
\* is the very error object testFunc rejected with (same identity, same message).
C5_NonRetryablePassthrough ==
    AbortedOnNonRetryable => outcome = Thrown(LastEvent.error)

C5_Witness ==
    /\ AbortedOnNonRetryable
    /\ LastEvent.attempt = 2
    /\ outcome.error.id = 2

\* C6: with maxRetries >= 1 and every testFunc invocation settling, a call always
\* ends, returned or failed and never both or neither, and testFunc is never
\* invoked more than maxRetries times.
C6_TerminatesWithinMaxRetries ==
    /\ [](Invocations <= config.maxRetries)
    /\ [](Settled <=> outcome.kind \in {"returned", "thrown"})
    /\ [](outcome.kind = "returned" <=> rpc = "returned")
    /\ ((rpc = "running" /\ config.maxRetries >= 1) ~> Settled)

C6_Witness ==
    /\ rpc = "thrown"
    /\ config.maxRetries = MaxRetriesBound
    /\ Invocations = MaxRetriesBound

-----------------------------------------------------------------------------
(* Observations on the history of a SelectorManager *)

AllKeys == {Key(n, s) : n \in ElementNames, s \in Selectors}

IsWait(i) == waits[i].type = "wait"

\* the settled waits recorded for a statistics key
WaitsOn(key, ok) ==
    {i \in 1..Len(waits) :
        /\ IsWait(i)
        /\ Key(waits[i].elementName, waits[i].selector) = key
        /\ waits[i].ok = ok}

\* the settled waits of one call, in order
WaitsOfCall(c) ==
    LET OfCall(w) == w.type = "wait" /\ w.call = c
    IN  SelectSeq(waits, OfCall)

SetMax(S) == CHOOSE m \in S : \A x \in S : x <= m

LastClear ==
    LET clears == {i \in 1..Len(waits) : waits[i].type = "clear"}
    IN  IF clears = {} THEN 0 ELSE SetMax(clears)

\* successful waits since the last clearCache, for a logical name / under a cache key
ResolvedFor(elementName) ==
    {i \in (LastClear + 1)..Len(waits) :
        waits[i].ok /\ waits[i].elementName = elementName}
ResolvedUnder(cacheKey) ==
    {i \in (LastClear + 1)..Len(waits) :
        waits[i].ok /\ Key(waits[i].elementName, waits[i].primarySelector) = cacheKey}

\* flow f has just entered a new smartSelect call
Started(f) == flow'[f].call # flow[f].call
CacheKeyOf(me) == Key(me.elementName, me.allSelectors[1])
Awaited(me) == me.allSelectors[me.idx]
NoneResolved(me) == \A i \in 1..Len(me.tried) : ~me.tried[i].ok

-----------------------------------------------------------------------------
(* Claims on smartSelect *)

\* C7: a call that finds no cache entry tries [primary, ...fallbacks] in list order
\* and returns the locator of the first candidate whose wait succeeds: the waits of
\* the call are exactly the candidates up to the winner, all failed but the last,
\* nothing after the winner is awaited; and every settled wait added one to exactly
\* one counter, failure for the candidates before the winner, success for the
\* winner, so the counters of each key equal the numbers of its failed and
\* successful waits and an untried candidate has no counter change.
C7_FirstResolvingCandidateWins ==
    /\ \A f \in DOMAIN flow :
         LET me == flow[f]
             n == Len(me.tried)
         IN  (me.pc = "returned" /\ n > 0 /\ me.tried[n].ok) =>
                /\ n <= Len(me.allSelectors)
                /\ \A i \in 1..n : me.tried[i] = Tried(me.allSelectors[i], i = n)
                /\ me.result = Locator(me.allSelectors[n])
                /\ WaitsOfCall(me.call) =
                     [i \in 1..n |->
                        WaitRecord(me.call, me.elementName, me.allSelectors[1],
                                   me.allSelectors[i], i = n)]
    /\ \A key \in AllKeys :
         IF WaitsOn(key, TRUE) \cup WaitsOn(key, FALSE) = {}
         THEN ~Has(selectorAttempts, key)
         ELSE /\ Has(selectorAttempts, key)
              /\ selectorAttempts[key].success = Cardinality(WaitsOn(key, TRUE))
              /\ selectorAttempts[key].failure = Cardinality(WaitsOn(key, FALSE))

C7_Witness ==
    /\ calls = 1
    /\ flow["f1"].pc = "returned"
    /\ flow["f1"].elementName = "x"
    /\ flow["f1"].allSelectors = <<"a", "b", "a_b">>
    /\ flow["f1"].result = Locator("b")
    /\ DOMAIN selectorAttempts = {"x_a", "x_b"}
    /\ selectorAttempts["x_a"] = [success |-> 0, failure |-> 1]
    /\ selectorAttempts["x_b"] = [success |-> 1, failure |-> 0]

\* C8 (as claimed): when a resolve has cached candidate B for the logical name, the
\* next resolve of that name, whatever its candidate list, first waits on B.
C8_CachedCandidateIsAwaitedFirst ==
    [][\A f \in DOMAIN flow :
         (Started(f) /\ ResolvedFor(flow'[f].elementName) # {}) =>
            /\ flow'[f].pc = "waiting"
            /\ Awaited(flow'[f]) =
                 waits[SetMax(ResolvedFor(flow'[f].elementName))].selector]_vars

\* C8 (amended): the cache is keyed by `${elementName}_${primarySelector}`. A call
\* whose key has been cached since the last clearCache returns the locator of the
\* candidate most recently cached under that key at once, whatever its fallbacks:
\* no wait on that candidate or any other, no counter or cache change. A call
\* whose key has not been cached does not use the cache: it starts waiting on its
\* own primary selector.
C8_CacheHitReturnsWithoutWaiting ==
    [][\A f \in DOMAIN flow :
         Started(f) =>
            LET me == flow'[f]
                hits == ResolvedUnder(CacheKeyOf(me))
            IN  /\ me.tried = <<>>
                /\ UNCHANGED <<selectorAttempts, selectorCache, waits>>
                /\ IF hits # {}
                   THEN /\ me.pc = "returned"
                        /\ me.result = Locator(waits[SetMax(hits)].selector)
                   ELSE /\ me.pc = "waiting"
                        /\ me.idx = 1
                        /\ me.result = NoResult]_vars

C8_Witness ==
    /\ flow["f1"].call = 2
    /\ flow["f1"].pc = "returned"
    /\ flow["f1"].tried = <<>>
    /\ flow["f1"].elementName = "x"
    /\ flow["f1"].allSelectors = <<"a", "b", "a_b">>
    /\ flow["f1"].result = Locator("b")
    /\ "a" \in present

\* C9 (as claimed): a call that finds a cached candidate which is no longer present
\* evicts the entry and scans the candidate list, and no call ever returns a
\* locator for a candidate that is not present when it returns.
C9_StaleEntryIsEvicted ==
    [][\A f \in DOMAIN flow :
         /\ ( /\ Started(f)
              /\ Has(selectorCache, CacheKeyOf(flow'[f]))
              /\ selectorCache[CacheKeyOf(flow'[f])] \notin present )
            => /\ ~Has(selectorCache', CacheKeyOf(flow'[f]))
               /\ flow'[f].pc = "waiting"
         /\ ( /\ flow'[f] # flow[f]
              /\ flow'[f].pc = "returned"
              /\ flow'[f].result.kind = "locator" )
            => flow'[f].result.selector \in present']_vars

\* C10 (as claimed): a call in which no candidate resolved returns a typed
\* NotFoundError value.
C10_ReturnsNotFoundError ==
    \A f \in DOMAIN flow :
        LET me == flow[f]
        IN  (me.pc = "returned" /\ me.tried # <<>> /\ NoneResolved(me)) =>
               me.result.kind = "NotFoundError"

\* C10 (amended): a call that finds no cache entry and in which no candidate
\* resolves returns null, after one wait on each candidate of
\* [primary, ...fallbacks] in order; the element name and the candidate list are
\* only written to the logger, as the last record of the call. A call settles with
\* null or a locator and nothing else, and null is returned in that case only.
C10_ReturnsNullAfterTryingAll ==
    \A f \in DOMAIN flow :
        LET me == flow[f]
        IN  me.pc = "returned" =>
               /\ me.result.kind \in {"null", "locator"}
               /\ (me.tried # <<>> /\ NoneResolved(me)) <=> me.result = NullResult
               /\ me.result = NullResult =>
                    /\ me.tried = [i \in 1..Len(me.allSelectors) |->
                                      Tried(me.allSelectors[i], FALSE)]
                    /\ WaitsOfCall(me.call) =
                         [i \in 1..Len(me.allSelectors) |->
                            WaitRecord(me.call, me.elementName, me.allSelectors[1],
                                       me.allSelectors[i], FALSE)]
                    /\ me.log[Len(me.log)] =
                         LoggerRecord("error", me.elementName,
                                      Join(me.allSelectors, " | "))

C10_Witness ==
    /\ flow["f1"].pc = "returned"
    /\ flow["f1"].result = NullResult
    /\ Len(flow["f1"].tried) = 3
    /\ flow["f1"].log[Len(flow["f1"].log)].text = "a | b | a_b"

\* C11 (as claimed): a call none of whose candidates is present returns the
\* not-found result, however many calls were made before it, and writes no cache
\* entry.
C11_UnresolvableYieldsNotFound ==
    [][\A f \in DOMAIN flow :
         ( /\ flow'[f] # flow[f]
           /\ flow'[f].pc = "returned"
           /\ \A i \in 1..Len(flow'[f].allSelectors) :
                 flow'[f].allSelectors[i] \notin present )
         => /\ flow'[f].result = NullResult
            /\ selectorCache' = selectorCache]_vars

-----------------------------------------------------------------------------
(* Claims on the statistics, the cache and smartSelectAny *)

\* C12: the counters are monotonic: no step of smartSelect, smartSelectAny,
\* clearCache or getStats removes a counter entry or lowers a success or failure
\* count.
C12_CountersAreMonotonic ==
    [][/\ DOMAIN selectorAttempts \subseteq DOMAIN selectorAttempts'
       /\ \A key \in DOMAIN selectorAttempts :
             /\ selectorAttempts'[key].success >= selectorAttempts[key].success
             /\ selectorAttempts'[key].failure >= selectorAttempts[key].failure]_vars

C12_Witness ==
    /\ LastClear > 0
    /\ selectorCache = EmptyMap
    /\ statsKeys # {}
    /\ StatsView = selectorAttempts
    /\ \E key \in DOMAIN selectorAttempts : selectorAttempts[key].failure = 1

\* the counters of a statistics key (0 while the key has no entry)
SuccessCount(attempts, key) == IF Has(attempts, key) THEN attempts[key].success ELSE 0
FailureCount(attempts, key) == IF Has(attempts, key) THEN attempts[key].failure ELSE 0

\* a waitFor awaited by the smartSelect call of flow f has just settled
Settles(f) ==
    /\ flow'[f].call = flow[f].call
    /\ Len(flow'[f].tried) = Len(flow[f].tried) + 1
Bump(cond) == IF cond THEN 1 ELSE 0

\* C13 (as claimed): every call that returns a handle raises the success counter
\* of the returned candidate by one, on the cache-hit path as on the scan.
C13_EveryHandleIsCounted ==
    [][\A f \in DOMAIN flow :
         ( /\ flow'[f] # flow[f]
           /\ flow'[f].pc = "returned"
           /\ flow'[f].result.kind = "locator" )
         => LET key == Key(flow'[f].elementName, flow'[f].result.selector)
            IN  SuccessCount(selectorAttempts', key) =
                   SuccessCount(selectorAttempts, key) + 1]_vars

\* C13 (amended): every wait that settles during the scan of a call adds one to
\* exactly one counter of the key `${elementName}_${selector}`: success when the
\* wait resolved (the call then returns that candidate's locator), failure when it
\* timed out; no other counter changes. A call that starts, and with it a call
\* that returns the cached candidate, makes no attempt and changes no counter, and
\* so does every step that is not a settled wait of smartSelect.
C13_ScanWaitsAreCountedOnce ==
    [][/\ \A f \in DOMAIN flow :
            /\ Settles(f) =>
                 LET t == flow'[f].tried[Len(flow'[f].tried)]
                     key == Key(flow[f].elementName, t.selector)
                 IN  /\ t.selector = Awaited(flow[f])
                     /\ \A k \in AllKeys :
                           /\ SuccessCount(selectorAttempts', k) =
                                SuccessCount(selectorAttempts, k) + Bump(k = key /\ t.ok)
                           /\ FailureCount(selectorAttempts', k) =
                                FailureCount(selectorAttempts, k) + Bump(k = key /\ ~t.ok)
                     /\ t.ok <=> flow'[f].result = Locator(t.selector)
            /\ Started(f) =>
                 /\ flow'[f].tried = <<>>
                 /\ selectorAttempts' = selectorAttempts
       /\ (\A f \in DOMAIN flow : ~Settles(f)) => selectorAttempts' = selectorAttempts]_vars

C13_Witness ==
    /\ calls = 2
    /\ flow["f1"].elementName = "x_a"
    /\ flow["f1"].result = Locator("b")
    /\ DOMAIN selectorAttempts = {"x_a_b"}
    /\ selectorAttempts["x_a_b"] = [success |-> 1, failure |-> 1]

\* the cache entries a logical name owns
EntriesOf(elementName) ==
    {key \in DOMAIN selectorCache : \E s \in Selectors : key = Key(elementName, s)}

\* C14 (as claimed): the cache holds at most one entry per logical name, and it is
\* the candidate that most recently resolved for that name.
C14_OneEntryPerName ==
    \A elementName \in ElementNames :
        /\ Cardinality(EntriesOf(elementName)) <= 1
        /\ \A key \in EntriesOf(elementName) :
              /\ ResolvedFor(elementName) # {}
              /\ selectorCache[key] = waits[SetMax(ResolvedFor(elementName))].selector

\* C14 (amended): the cache holds exactly one entry per key string
\* `${elementName}_${primarySelector}` under which a scan has resolved since the
\* last clearCache, and it is the candidate that most recently resolved under that
\* key; calls for one name with different primary selectors own separate entries.
C14_OneEntryPerCacheKey ==
    /\ DOMAIN selectorCache = {key \in AllKeys : ResolvedUnder(key) # {}}
    /\ \A key \in DOMAIN selectorCache :
          selectorCache[key] = waits[SetMax(ResolvedUnder(key))].selector

C14_Witness ==
    /\ DOMAIN selectorCache = {"x_a", "x_b"}
    /\ selectorCache["x_a"] = "b"
    /\ selectorCache["x_b"] = "b"
    /\ EntriesOf("x") = {"x_a", "x_b"}

\* C15: smartSelectAny waits on the selectors one at a time in list order; it
\* returns the locator of the first one whose wait resolves, having attempted
\* exactly the selectors up to it and none after it, and it returns null, never
\* anything else, after one failed wait on every selector of the list (at once for
\* an empty list).
C15_AnyReturnsFirstMatch ==
    \A f \in DOMAIN anyFlow :
        LET me == anyFlow[f]
            n == Len(me.tried)
        IN  /\ n <= Len(me.selectors)
            /\ \A i \in 1..n : me.tried[i].selector = me.selectors[i]
            /\ \A i \in 1..(n - 1) : ~me.tried[i].ok
            /\ me.pc = "waiting" =>
                 /\ me.idx = n + 1
                 /\ me.idx <= Len(me.selectors)
                 /\ \A i \in 1..n : ~me.tried[i].ok
            /\ me.pc = "returned" =>
                 IF n > 0 /\ me.tried[n].ok
                 THEN me.result = Locator(me.selectors[n])
                 ELSE /\ me.result = NullResult
                      /\ n = Len(me.selectors)

C15_Witness ==
    /\ anyFlow["f1"].pc = "returned"
    /\ anyFlow["f1"].selectors = <<"a", "b", "a_b">>
    /\ anyFlow["f1"].tried = <<Tried("a", FALSE), Tried("b", TRUE)>>
    /\ anyFlow["f1"].result = Locator("b")
    /\ "a_b" \in present

-----------------------------------------------------------------------------
(* Claims on SmartWait *)

\* the last requiredStableChecks comparisons of the stability loop found the
\* bounding box unchanged
ObservedStable(me) ==
    LET n == Len(me.boxes)
    IN  /\ n > requiredStableChecks
        /\ \A i \in (n - requiredStableChecks)..(n - 1) :
              boxesEqual(me.boxes[i], me.boxes[i + 1])

\* C16 (as claimed): with stable = true, waitForElement reports the element ready
\* only after its bounding box was observed unchanged for 3 consecutive checks; an
\* element that never stabilises within the timeout is not reported ready.
C16_ReadyOnlyWhenStable ==
    (elementWait.pc = "returned" /\ elementWait.stable) => ObservedStable(elementWait)

\* C17: waitForAnyElement waits on the selectors one at a time in list order, each
\* wait with a timeout of at least 100 ms; it returns the locator of the first
\* selector whose wait resolves, and when every wait failed it throws the error of
\* the last wait, which is an Error whenever the list is not empty.
C17_AnyElementFirstMatchWins ==
    LET me == anyWait
        n == Len(me.tried)
    IN  /\ n <= Len(me.selectors)
        /\ \A i \in 1..n : /\ me.tried[i].selector = me.selectors[i]
                           /\ me.tried[i].remainingTimeout >= 1
        /\ \A i \in 1..(n - 1) : ~me.tried[i].ok
        /\ me.pc = "waiting" =>
             /\ me.idx = n + 1
             /\ me.idx <= Len(me.selectors)
             /\ \A i \in 1..n : ~me.tried[i].ok
        /\ me.pc = "returned" =>
             /\ n > 0
             /\ me.tried[n].ok
             /\ me.outcome = Returned(Locator(me.selectors[n]))
        /\ me.pc = "thrown" =>
             /\ n = Len(me.selectors)
             /\ \A i \in 1..n : ~me.tried[i].ok
             /\ me.outcome.kind = "thrown"
             /\ n > 0 => /\ me.outcome.error.id = n
                         /\ me.outcome.error.kind # "undefined"

C17_Witness ==
    /\ anyWait.pc = "thrown"
    /\ anyWait.selectors = <<"b", "a", "a_b">>
    /\ Len(anyWait.tried) = 3
    /\ anyWait.outcome.error.id = 3
    /\ anyWait.timeout = 2
    /\ anyWait.tried[3].remainingTimeout = 1

-----------------------------------------------------------------------------
(* Claims on DataCleanupManager *)

\* C18 (as claimed): a settled executeWithCleanup call has run the cleanup after
\* testFn and hands the caller what testFn produced: its result when it resolved,
\* its error when it rejected, whether or not the cleanup failed.
C18_CleanupThenTestOutcome ==
    cleanupRun.pc \in {"returned", "thrown"} =>
        /\ cleanupRun.cleanups >= 1
        /\ cleanupRun.outcome = cleanupRun.tested

-----------------------------------------------------------------------------
(* Claims on AutonomousTestScheduler *)

\* C19 (as claimed): when stopAllJobs has returned, every cron job scheduleTests
\* ever created on the scheduler is stopped and the jobs map is empty.
C19_StopAllJobsStopsEveryJob ==
    lastOp.method = "stopAllJobs" =>
        /\ jobs = NoJobs
        /\ \A i \in 1..Len(cronJobs) : ~cronJobs[i].running

-----------------------------------------------------------------------------
(* Claims on the order of the steps of one call *)

IsSettlement(e) == e.type \in {"resolved", "rejected"}

\* the history of an executeWithRetry call is call, rejected, sleep, call, ... :
\* invocation a + 1 comes right after the sleep of attempt a, which comes right
\* after the rejection of invocation a; at most one invocation is unsettled, and
\* that exactly while the call awaits testFunc
RetrySequential ==
    /\ \A i \in 1..Len(events) :
          /\ IsCall(events[i]) =>
               IF events[i].attempt = 1
               THEN i = 1
               ELSE /\ i > 2
                    /\ IsSleep(events[i - 1])
                    /\ events[i - 1].attempt = events[i].attempt - 1
                    /\ IsRejected(events[i - 2])
                    /\ events[i - 2].attempt = events[i].attempt - 1
          /\ (IsCall(events[i]) /\ i < Len(events)) =>
               /\ IsSettlement(events[i + 1])
               /\ events[i + 1].attempt = events[i].attempt
          /\ IsSettlement(events[i]) =>
               /\ i > 1
               /\ events[i - 1] = CallEvent(events[i].attempt)
    /\ Invocations - Len(SelectSeq(events, IsSettlement)) =
          (IF rpc = "running" THEN 1 ELSE 0)
    /\ rpc = "sleeping" <=> (events # <<>> /\ IsSleep(LastEvent))

\* a smartSelect call awaiting candidate idx has seen one failed wait on each of
\* the candidates before it, in list order, and no other wait
ResolveSequential ==
    \A f \in DOMAIN flow :
        LET me == flow[f]
        IN  me.pc = "waiting" =>
               /\ me.idx = Len(me.tried) + 1
               /\ me.idx <= Len(me.allSelectors)
               /\ \A i \in 1..Len(me.tried) :
                     me.tried[i] = Tried(me.allSelectors[i], FALSE)
               /\ Len(WaitsOfCall(me.call)) = Len(me.tried)

\* C20: the steps of a call are strictly sequential. In smartSelect the wait on
\* candidate i + 1 starts in the step in which the wait on candidate i fails, and
\* only there; in executeWithRetry invocation a + 1 starts in the step in which
\* the backoff timer of attempt a fires, after invocation a was rejected; two
\* waits or two invocations of one call are never in progress together.
C20_StepsAreSequential ==
    [][/\ RetrySequential'
       /\ ResolveSequential'
       /\ (Len(events') > Len(events) /\ IsCall(events'[Len(events')])) =>
             \/ rpc = "idle" /\ events' = <<CallEvent(1)>>
             \/ /\ rpc = "sleeping"
                /\ IsRejected(events[Len(events) - 1])
                /\ events' = Append(events, CallEvent(LastEvent.attempt + 1))
       /\ \A f \in DOMAIN flow :
             (flow'[f].call = flow[f].call /\ flow'[f].idx # flow[f].idx) =>
                /\ flow[f].pc = "waiting"
                /\ Awaited(flow[f]) \notin present
                /\ flow'[f].idx = flow[f].idx + 1
                /\ flow'[f].tried =
                     Append(flow[f].tried, Tried(Awaited(flow[f]), FALSE))]_vars

C20_Witness ==
    /\ rpc = "running"
    /\ attempt = 3
    /\ Len(events) = 7
    /\ IsCall(events[7])
    /\ IsSleep(events[6])
    /\ IsRejected(events[5])
    /\ Sleeps = <<50, 100>>

-----------------------------------------------------------------------------
(* Claims on flows sharing one SelectorManager *)

\* C21: when several flows are inside smartSelect on one shared instance,
\* interleaving at the awaited waits, no counter update is lost: in every state,
\* and so in every final one, the success and failure counts under each statistics
\* key equal the numbers of waits recorded under that key, by whichever flow, that
\* resolved and that timed out.
C21_NoCounterUpdateIsLost ==
    \A key \in AllKeys :
        /\ SuccessCount(selectorAttempts, key) = Cardinality(WaitsOn(key, TRUE))
        /\ FailureCount(selectorAttempts, key) = Cardinality(WaitsOn(key, FALSE))

\* two calls for the same element whose waits alternate, all four counted
C21_Witness ==
    /\ flow["f1"].pc = "returned"
    /\ flow["f2"].pc = "returned"
    /\ flow["f1"].call # flow["f2"].call
    /\ Len(waits) = 4
    /\ \A i \in 1..4 : IsWait(i) /\ waits[i].elementName = "x"
    /\ <<waits[1].call, waits[2].call, waits[3].call, waits[4].call>> = <<1, 2, 1, 2>>
    /\ selectorAttempts["x_b"] = [success |-> 0, failure |-> 2]
    /\ selectorAttempts["x_a"] = [success |-> 2, failure |-> 0]

-----------------------------------------------------------------------------
(* Claims on cancellation *)

\* a flow starts waiting on a candidate it was not waiting on before
AttemptsCandidate(f) ==
    /\ flow'[f].pc = "waiting"
    /\ <<flow'[f].call, flow'[f].idx>> # <<flow[f].call, flow[f].idx>>

\* C22 (as claimed): once the flow has been cancelled during a backoff sleep of
\* executeWithRetry the sleep is aborted and testFunc is never invoked again, and
\* once it has been cancelled during a candidate wait of smartSelect no further
\* candidate is attempted.
C22_CancelledCallStops ==
    [][/\ cancelledAt = "sleeping" => (rpc' = rpc /\ Invocations' = Invocations)
       /\ cancelledAt = "waiting" => \A f \in DOMAIN flow : ~AttemptsCandidate(f)]_vars

-----------------------------------------------------------------------------
(* Claims on what executeWithRetry logs *)

\* C23 (as claimed): when the call has returned or failed, every failed attempt,
\* the final success (on the first attempt too) and the exhaustion after the last
\* attempt have each written a record that carries the test name and the attempt
\* number.
C23_EveryOutcomeIsLogged ==
    LET Logged(kinds, n) ==
            \E i \in 1..Len(console) :
                /\ console[i].what \in kinds
                /\ console[i].attempt = n
                /\ console[i].testName = config.testName
    IN  Settled =>
          /\ \A i \in 1..Len(events) :
                IsRejected(events[i]) => Logged({"failed"}, events[i].attempt)
          /\ rpc = "returned" => Logged({"passed"}, attempt)
          /\ (rpc = "thrown" /\ config.maxRetries >= 1 /\ attempt >= config.maxRetries)
                => Logged({"failed", "exhausted"}, config.maxRetries)

-----------------------------------------------------------------------------
(* LoginPage.loginWithRetry and MobileLoginPage.login: the login body run as the *)
(* testFunc of executeWithRetry. Each invocation of the body asks its own       *)
(* SelectorManager for a required element, with the same name and selectors     *)
(* every time, and throws when smartSelect returned null.                       *)

\* the options of the two calls (initialDelay and backoffMultiplier by default)
LoginConfigs ==
    {[maxRetries |-> n, initialDelay |-> 500, backoffMultiplier |-> 2,
      testName |-> "Login with Retry",
      retryableErrors |-> {"timeout", "Timeout", "Navigation"}] : n \in RetryCounts}
    \cup
    {[maxRetries |-> 3, initialDelay |-> 500, backoffMultiplier |-> 2,
      testName |-> "Mobile Login",
      retryableErrors |-> {"timeout", "Timeout", "Navigation"}]}

\* the messages of the errors the page object throws for a missing element
NotFoundErrorsNamingTimeout(testName) ==
    {"Timeout: required login elements not found"}

NotFoundErrors(testName) ==
    IF testName = "Login with Retry"
    THEN {"Could not find required login elements"}
    ELSE {"Username field not found", "Password field not found",
          "Login button not found"}

\* loginPage.js 89-98 / part_011 120-136: the call up to the first invocation of
\* the body
LoginWithRetry ==
    /\ rpc = "idle"
    /\ \E cfg \in LoginConfigs :
         /\ config' = cfg
         /\ lastError' = NoError
         /\ delay' = cfg.initialDelay
         /\ attempt' = 1
         /\ console' = <<>>
         /\ IF 1 <= cfg.maxRetries
            THEN /\ rpc' = "running"
                 /\ events' = <<CallEvent(1)>>
                 /\ outcome' = NoOutcome
            ELSE /\ rpc' = "thrown"
                 /\ events' = <<>>
                 /\ outcome' = Thrown(TrailingError(cfg, NoError))

\* the body has got `kind` ("locator" or "null") from smartSelect
BodyGot(kind) ==
    /\ rpc = "running"
    /\ calls = Invocations
    /\ flow["f1"].pc = "returned"
    /\ flow["f1"].result.kind = kind

\* loginPage.js 58-60, 80-83 / part_011 56-58, 78-80, 99-101: smartSelect returned
\* null, the body throws; the catch block of executeWithRetry (testRetry.js 59-82)
LoginBodyThrows ==
    /\ BodyGot("null")
    /\ \E m \in NotFoundErrors(config.testName) :
         LET error == ErrorObject(attempt, "Error", m) IN
         /\ lastError' = error
         /\ IF shouldRetry(error, attempt, config.maxRetries, config.retryableErrors)
            THEN /\ console' = console \o
                       <<LogRecord("warn", "failed", config, attempt, error.message, 0),
                         LogRecord("log", "retrying", config, attempt, "", delay)>>
                 /\ events' = events \o
                       <<RejectEvent(attempt, error), SleepEvent(attempt, delay)>>
                 /\ rpc' = "sleeping"
                 /\ outcome' = outcome
            ELSE /\ console' = console
                 /\ events' = Append(events, RejectEvent(attempt, error))
                 /\ rpc' = "thrown"
                 /\ outcome' = Thrown(error)
    /\ UNCHANGED <<config, attempt, delay>>

LoginNext ==
    \/ LoginWithRetry /\ UNCHANGED besidesRetry
    \/ /\ rpc = "running" /\ calls < Invocations
       /\ SmartSelect("f1")
       /\ calls > 0 =>
            /\ flow'["f1"].elementName = flow["f1"].elementName
            /\ flow'["f1"].allSelectors = flow["f1"].allSelectors
       /\ UNCHANGED besidesSelector
    \/ WaitForResolves("f1") /\ UNCHANGED besidesSelector
    \/ WaitForRejects("f1") /\ UNCHANGED besidesSelector
    \/ PageChanges /\ UNCHANGED besidesSelector
    \/ BodyGot("locator") /\ TestFuncResolves /\ UNCHANGED besidesRetry
    \/ BodyGot("locator") /\ TestFuncRejects /\ UNCHANGED besidesRetry
    \/ LoginBodyThrows /\ UNCHANGED besidesRetry
    \/ TimerFires /\ UNCHANGED besidesRetry

LoginSpec == SelectorAloneInit /\ [][LoginNext]_vars

-----------------------------------------------------------------------------
(* Claims on the cache entries and on the frame of smartSelectAny *)

\* the waits of smartSelect calls for a name and a primary selector that resolved
\* on candidate s
ResolvedOn(elementName, primarySelector, s) ==
    {i \in 1..Len(waits) :
        /\ IsWait(i) /\ waits[i].ok
        /\ waits[i].elementName = elementName
        /\ waits[i].primarySelector = primarySelector
        /\ waits[i].selector = s}

\* C25 (as claimed): after every step, the cache entry of each (elementName,
\* primarySelector) holds a selector s on which a wait of an earlier smartSelect
\* call for that elementName and primary succeeded, and the success counter of
\* (elementName, s) is at least 1; and a wait that fails leaves the cache as it was.
C25_EntriesComeFromSuccessfulWaits ==
    [][LET EntriesAreSound ==
               \A elementName \in ElementNames, primarySelector \in Selectors :
                   LET cacheKey == Key(elementName, primarySelector)
                   IN  Has(selectorCache, cacheKey) =>
                         LET s == selectorCache[cacheKey]
                         IN  /\ ResolvedOn(elementName, primarySelector, s) # {}
                             /\ SuccessCount(selectorAttempts, Key(elementName, s)) >= 1
       IN  /\ EntriesAreSound'
           /\ \A f \in DOMAIN flow :
                (Settles(f) /\ ~flow'[f].tried[Len(flow'[f].tried)].ok)
                    => selectorCache' = selectorCache]_vars

\* C26: smartSelectAny neither reads nor writes the resolver's state: every step
\* of a smartSelectAny call leaves selectorCache and selectorAttempts as they were;
\* a call with selectors starts by waiting on its first selector whatever the
\* cache holds for its elementName, and whether a wait resolves, and with it the
\* result, is decided by the page alone.
C26_AnyLeavesResolverStateAlone ==
    [][\A f \in DOMAIN anyFlow :
         anyFlow'[f] # anyFlow[f] =>
            /\ selectorCache' = selectorCache
            /\ selectorAttempts' = selectorAttempts
            /\ (anyFlow'[f].tried = <<>> /\ anyFlow'[f].selectors # <<>>) =>
                  /\ anyFlow'[f].pc = "waiting"
                  /\ anyFlow'[f].idx = 1
            /\ Len(anyFlow'[f].tried) = Len(anyFlow[f].tried) + 1 =>
                  LET t == anyFlow'[f].tried[Len(anyFlow'[f].tried)]
                  IN  /\ t.selector = anyFlow[f].selectors[anyFlow[f].idx]
                      /\ t.ok <=> t.selector \in present
                      /\ t.ok => anyFlow'[f].result = Locator(t.selector)
                      /\ (~t.ok /\ anyFlow'[f].pc = "returned") =>
                            anyFlow'[f].result = NullResult]_vars

\* smartSelect would return the cached "a" for this name and primary selector;
\* smartSelectAny waited on "b" and returned it
C26_Witness ==
    /\ selectorCache = [k \in {"x_b"} |-> "a"]
    /\ selectorAttempts["x_b"] = [success |-> 0, failure |-> 1]
    /\ anyFlow["f1"].pc = "returned"
    /\ anyFlow["f1"].elementName = "x"
    /\ anyFlow["f1"].selectors = <<"b", "a">>
    /\ anyFlow["f1"].result = Locator("b")

-----------------------------------------------------------------------------
(* Claims on the statement after the loop of executeWithRetry *)

\* C27: the `throw new Error('... Failed after ...')` after the loop is reached
\* only with maxRetries < 1. A call with maxRetries >= 1 ends inside the loop: it
\* returns the value testFunc resolved with, or it throws the very error object
\* testFunc rejected with. A call with maxRetries = 0 never invokes testFunc and
\* fails in the statement after the loop.
C27_TrailingThrowOnlyWithoutAttempts ==
    Settled =>
        IF config.maxRetries >= 1
        THEN /\ events # <<>>
             /\ LastEvent.attempt = Invocations
             /\ \/ /\ rpc = "returned"
                   /\ LastEvent = ResolveEvent(Invocations, outcome.value)
                \/ /\ rpc = "thrown"
                   /\ LastEvent = RejectEvent(Invocations, outcome.error)
                   /\ outcome.error.id = Invocations
        ELSE /\ events = <<>>
             /\ rpc = "thrown"
             /\ outcome.error.id = 0

C27_Witness ==
    /\ rpc = "thrown"
    /\ config.maxRetries = 0
    /\ Invocations = 0
    /\ outcome.error.kind = "TypeError"

-----------------------------------------------------------------------------
(* Claims on cleanupDataItem                                                    *)

\* the strategy promises that resolved for `key` in registration period `period`
Completions(key, period) ==
    {j \in 1..Len(itemRuns.settled) :
        /\ itemRuns.settled[j].ok
        /\ itemRuns.settled[j].key = key
        /\ itemRuns.settled[j].period = period}

\* a call of caller c invokes the strategy in this step
InvokesStrategy(c) ==
    itemRuns.call[c].pc # "strategy" /\ itemRuns'.call[c].pc = "strategy"

\* the strategy is invoked only for an item that is registered with its flag false
C28_InvokedOnlyWhenPending ==
    \A c \in ItemCallers :
        InvokesStrategy(c) =>
            LET i == IndexOf(dataRegistry, itemRuns'.call[c].key)
            IN  i # 0 /\ ~dataRegistry[i].cleanedUp

\* the flag of an entry goes from false to true only in a step in which a strategy
\* promise for its key resolves
C28_FlagSetOnlyAfterStrategy ==
    \A i \in 1..Len(dataRegistry) :
        (~dataRegistry[i].cleanedUp /\ dataRegistry'[i].cleanedUp) =>
            /\ Len(itemRuns'.settled) = Len(itemRuns.settled) + 1
            /\ itemRuns'.settled[Len(itemRuns'.settled)].ok
            /\ itemRuns'.settled[Len(itemRuns'.settled)].key = dataRegistry[i].key

\* a strategy that throws leaves the flag as it is, appends a FAILED record and the
\* call returns false
C28_ThrowingStrategyIsRecorded ==
    \A c \in ItemCallers :
        (/\ itemRuns.call[c].pc = "strategy"
         /\ itemRuns'.call[c].pc # "strategy"
         /\ ~itemRuns'.settled[Len(itemRuns'.settled)].ok) =>
            /\ dataRegistry' = dataRegistry
            /\ Len(cleanupHistory') = Len(cleanupHistory) + 1
            /\ cleanupHistory'[Len(cleanupHistory')].key = itemRuns.call[c].key
            /\ cleanupHistory'[Len(cleanupHistory')].status = "FAILED"
            /\ itemRuns'.call[c].pc = "returned"
            /\ ~itemRuns'.call[c].result

\* between two registrations of a key the strategy completes at most once for it
C28_CompletesAtMostOnce ==
    \A key \in ItemKeys :
        \A period \in 0..MaxRegistrations : Cardinality(Completions(key, period)) <= 1

\* C28: cleanupDataItem invokes the strategy only for a registered item whose
\* cleanedUp flag is false, sets the flag only after the strategy resolves, and on a
\* throwing strategy leaves the flag false, appends a FAILED record and returns
\* false; so between two registerDataForCleanup calls for a key the strategy
\* completes successfully at most once for that item.
C28_StrategyCompletesOncePerRegistration ==
    [][/\ C28_InvokedOnlyWhenPending
       /\ C28_FlagSetOnlyAfterStrategy
       /\ C28_ThrowingStrategyIsRecorded
       /\ C28_CompletesAtMostOnce']_vars

====
